---- MODULE Spec2Model ----
(***************************************************************************)
(* TicTacTwo (movable-grid tic-tac-toe): the game-state model of          *)
(* src/src/game.ts and the search driver of src/src/minimax.ts.           *)
(***************************************************************************)
EXTENDS Integers, Sequences, FiniteSets, TLC

VARIABLES
    state,          \* GameState: board, activeX, activeY, placementsByPlayer
    sideToMove,     \* currentPlayer of the drivers: the side to move
    history,        \* Set<string> of position keys handed to the engine
    evaluations,    \* evaluations of the last getEngineEvaluations call
    stats,          \* MinimaxStats of the last getEngineEvaluations call
    callArgs,       \* depthLimit and count the last engine call was given
    chosen,         \* outcome of the last chooseBestAction call
    winnerResult,   \* value returned by the last getWinner call
    drawResult,     \* value returned by the last isDraw call
    lastCall,       \* the function applied last: "none", "getWinner", "isDraw", ...
    baseline,       \* outcome of the last unpruned minimax call
    searched,       \* outcomes of the pruned searches made since, in call order
    ttable,         \* the transposition table those searches share
    scoreResult,    \* value returned by the last call of an evaluation function
    pluginRegistry, \* the registered evaluation plugins, in the order of their first registration
    registryResult, \* outcome of the last call of a registry function
    keyResult,      \* value returned by the last getStateKey call
    options,        \* what the running driver was started with (flags of cli.ts, options of learning.ts)
    driver,         \* the running driver function and its position in it
    turnHistory,    \* the turns committed in the running match, oldest first (history of learning.ts)
    published,      \* the eval widgets renderProgressiveEval has logged, oldest first
    episodeResult,  \* value returned by runSelfPlayEpisode
    frames,         \* the activations of minimax that have not returned, outermost first
    visitedKeys     \* visited: the Set<string> the running branch of getEngineEvaluations hands to minimax

registryVars == <<pluginRegistry, registryResult>>

driverVars == <<options, driver, turnHistory, published, episodeResult>>

pathVars == <<frames, visitedKeys>>

vars == <<state, sideToMove, history, evaluations, stats, callArgs, chosen, winnerResult, drawResult, lastCall,
          baseline, searched, ttable, scoreResult, registryVars, keyResult, driverVars, pathVars>>

-----------------------------------------------------------------------------
(* Program constants, game.ts                                              *)

FIRST_PLAYER == "X"
SECOND_PLAYER == "O"
Player == {FIRST_PLAYER, SECOND_PLAYER}
EMPTY == " "
Cell == Player \cup {EMPTY}

FIRST_PLAYER_PIECES == 4
MAX_PLACEMENTS_PER_PLAYER == FIRST_PLAYER_PIECES
BOARD_SIZE == 5
ACTIVE_SIZE == 3
INITIAL_ACTIVE_COORD == 1
PLACEMENTS_BEFORE_MOVEMENT == 2
TOTAL_CELLS == BOARD_SIZE * BOARD_SIZE

\* reading board[i] of a JavaScript array: an index off the array reads undefined
UNDEFINED == "undefined"
CellAt(board, i) == IF i \in DOMAIN board THEN board[i] ELSE UNDEFINED

relativeWinningLines ==
    << << <<0, 0>>, <<0, 1>>, <<0, 2>> >>,
       << <<1, 0>>, <<1, 1>>, <<1, 2>> >>,
       << <<2, 0>>, <<2, 1>>, <<2, 2>> >>,
       << <<0, 0>>, <<1, 0>>, <<2, 0>> >>,
       << <<0, 1>>, <<1, 1>>, <<2, 1>> >>,
       << <<0, 2>>, <<1, 2>>, <<2, 2>> >>,
       << <<0, 0>>, <<1, 1>>, <<2, 2>> >>,
       << <<0, 2>>, <<1, 1>>, <<2, 0>> >> >>

\* createInitialState whose counters start at one placement for the first player
createInitialState_countsOne ==
    [ board |-> [i \in 0..(TOTAL_CELLS - 1) |-> EMPTY],
      activeX |-> INITIAL_ACTIVE_COORD,
      activeY |-> INITIAL_ACTIVE_COORD,
      placementsByPlayer |-> [p \in Player |-> IF p = FIRST_PLAYER THEN 1 ELSE 0] ]

createInitialState ==
    [ board |-> [i \in 0..(TOTAL_CELLS - 1) |-> EMPTY],
      activeX |-> INITIAL_ACTIVE_COORD,
      activeY |-> INITIAL_ACTIVE_COORD,
      placementsByPlayer |-> [p \in Player |-> 0] ]

getOpponent(player) == IF player = "X" THEN "O" ELSE "X"

toIndex(row, col) == row * BOARD_SIZE + col

\* getActiveIndices with the row and column offsets exchanged
getActiveIndices_transposed(s) ==
    [k \in 1..(ACTIVE_SIZE * ACTIVE_SIZE) |->
        toIndex(s.activeX + ((k - 1) \div ACTIVE_SIZE), s.activeY + ((k - 1) % ACTIVE_SIZE))]

\* the nine window cells, row-major (the two nested loops of getActiveIndices)
getActiveIndices(s) ==
    [k \in 1..(ACTIVE_SIZE * ACTIVE_SIZE) |->
        toIndex(s.activeY + ((k - 1) \div ACTIVE_SIZE), s.activeX + ((k - 1) % ACTIVE_SIZE))]

\* isCellInActiveGrid with inclusive upper edges
isCellInActiveGrid_inclusive(s, row, col) ==
    /\ row >= s.activeY
    /\ row <= s.activeY + ACTIVE_SIZE
    /\ col >= s.activeX
    /\ col <= s.activeX + ACTIVE_SIZE

isCellInActiveGrid(s, row, col) ==
    /\ row >= s.activeY
    /\ row < s.activeY + ACTIVE_SIZE
    /\ col >= s.activeX
    /\ col < s.activeX + ACTIVE_SIZE

\* canShiftGrid with the upper bound taken against the board, not the last corner
canShiftGrid_boardBound(s, dx, dy) ==
    LET targetX == s.activeX + dx
        targetY == s.activeY + dy
    IN  /\ targetX >= 0
        /\ targetX < BOARD_SIZE
        /\ targetY >= 0
        /\ targetY < BOARD_SIZE

\* canShiftGrid with the lower edges tested on the offset, not on the target
canShiftGrid_noReturn(s, dx, dy) ==
    /\ dx >= 0
    /\ s.activeX + dx <= BOARD_SIZE - ACTIVE_SIZE
    /\ dy >= 0
    /\ s.activeY + dy <= BOARD_SIZE - ACTIVE_SIZE

canShiftGrid(s, dx, dy) ==
    LET targetX == s.activeX + dx
        targetY == s.activeY + dy
    IN  /\ targetX >= 0
        /\ targetX <= BOARD_SIZE - ACTIVE_SIZE
        /\ targetY >= 0
        /\ targetY <= BOARD_SIZE - ACTIVE_SIZE

ShiftDirection(dx, dy) == [dx |-> dx, dy |-> dy]

cardinal ==
    << ShiftDirection(-1, 0), ShiftDirection(1, 0), ShiftDirection(0, -1), ShiftDirection(0, 1) >>

diagonal ==
    << ShiftDirection(-1, -1), ShiftDirection(1, -1), ShiftDirection(-1, 1), ShiftDirection(1, 1) >>

\* getShiftActions without the canShiftGrid filter
getShiftActions_unfiltered(s) == cardinal \o diagonal

getShiftActions(s) ==
    SelectSeq(cardinal \o diagonal, LAMBDA d : canShiftGrid(s, d.dx, d.dy))

\* hasReachedMovementMinimum satisfied by a single placement
hasReachedMovementMinimum_one(s, player) ==
    s.placementsByPlayer[player] >= PLACEMENTS_BEFORE_MOVEMENT - 1

hasReachedMovementMinimum(s, player) ==
    s.placementsByPlayer[player] >= PLACEMENTS_BEFORE_MOVEMENT

\* hasReachedPlacementLimit with a strict comparison
hasReachedPlacementLimit_strict(s, player) ==
    s.placementsByPlayer[player] > MAX_PLACEMENTS_PER_PLAYER

\* hasReachedPlacementLimit that holds the first player alone to the limit
hasReachedPlacementLimit_firstOnly(s, player) ==
    player = FIRST_PLAYER /\ s.placementsByPlayer[player] >= MAX_PLACEMENTS_PER_PLAYER

hasReachedPlacementLimit(s, player) ==
    s.placementsByPlayer[player] >= MAX_PLACEMENTS_PER_PLAYER

\* indices of the player's markers over the whole board, ascending (Array.reduce)
getPlayerPieceIndices(s, player) ==
    SelectSeq([k \in 1..TOTAL_CELLS |-> k - 1], LAMBDA i : s.board[i] = player)

PlaceAction(index) == [type |-> "place", index |-> index]
MoveAction(from, to) == [type |-> "move", from |-> from, to |-> to]
ShiftAction(dx, dy) == [type |-> "shift", dx |-> dx, dy |-> dy]

\* getMoveActions that takes every empty cell of the board as a destination
getMoveActions_anyDestination(s, player) ==
    IF ~hasReachedMovementMinimum(s, player) THEN << >>
    ELSE
      LET ownedIndices == getPlayerPieceIndices(s, player)
          emptyActiveIndices == SelectSeq([k \in 1..TOTAL_CELLS |-> k - 1], LAMBDA i : s.board[i] = EMPTY)
          n == Len(ownedIndices)
          m == Len(emptyActiveIndices)
      IN  IF n = 0 \/ m = 0 THEN << >>
          ELSE
            LET pairs == [k \in 1..(n * m) |->
                            MoveAction(ownedIndices[((k - 1) \div m) + 1],
                                       emptyActiveIndices[((k - 1) % m) + 1])]
            IN  SelectSeq(pairs, LAMBDA a : a.from # a.to)

getMoveActions(s, player) ==
    IF ~hasReachedMovementMinimum(s, player) THEN << >>
    ELSE
      LET ownedIndices == getPlayerPieceIndices(s, player)
          emptyActiveIndices == SelectSeq(getActiveIndices(s), LAMBDA i : s.board[i] = EMPTY)
          n == Len(ownedIndices)
          m == Len(emptyActiveIndices)
      IN  IF n = 0 \/ m = 0 THEN << >>
          ELSE
            LET pairs == [k \in 1..(n * m) |->
                            MoveAction(ownedIndices[((k - 1) \div m) + 1],
                                       emptyActiveIndices[((k - 1) % m) + 1])]
            IN  SelectSeq(pairs, LAMBDA a : a.from # a.to)

getAvailableActions(s, player) ==
    LET emptyActive == SelectSeq(getActiveIndices(s), LAMBDA i : s.board[i] = EMPTY)
        placements ==
            IF hasReachedPlacementLimit(s, player) THEN << >>
            ELSE [k \in 1..Len(emptyActive) |-> PlaceAction(emptyActive[k])]
        moves == getMoveActions(s, player)
        shiftDirs == getShiftActions(s)
        shifts ==
            IF hasReachedMovementMinimum(s, player)
            THEN [k \in 1..Len(shiftDirs) |-> ShiftAction(shiftDirs[k].dx, shiftDirs[k].dy)]
            ELSE << >>
    IN  placements \o moves \o shifts

\* applyAction either throws (error names the throw, no successor) or returns
\* the successor state; error = "none" marks a normal return.
Thrown(kind, s) == [error |-> kind, state |-> s]
Returned(s) == [error |-> "none", state |-> s]

\* applyAction whose place branch builds the counters anew instead of copying
\* those of the state: the counter of the other player restarts at 0
applyAction_freshCounters(s, action, player) ==
    IF action.type = "place" THEN
        IF hasReachedPlacementLimit(s, player)
        THEN Thrown("PlacementOverLimit", s)   \* "Cannot place more than four pieces..."
        ELSE IF CellAt(s.board, action.index) # EMPTY
        THEN Thrown("CellOccupied", s)         \* "Cannot place on an occupied cell"
        ELSE Returned(
               [ board |-> [s.board EXCEPT ![action.index] = player],
                 activeX |-> s.activeX,
                 activeY |-> s.activeY,
                 placementsByPlayer |->
                    [q \in Player |-> IF q = player THEN s.placementsByPlayer[player] + 1 ELSE 0] ])
    ELSE IF action.type = "move" THEN
        IF ~hasReachedMovementMinimum(s, player)
        THEN Thrown("MovementPremature", s)    \* "Must place at least two pieces before moving a peg"
        ELSE IF CellAt(s.board, action.from) # player
        THEN Thrown("NotOwnPiece", s)          \* "Can only move your own pieces"
        ELSE IF CellAt(s.board, action.to) # EMPTY
        THEN Thrown("DestinationOccupied", s)  \* "Destination cell must be empty"
        ELSE
          LET targetRow == action.to \div BOARD_SIZE
              targetCol == action.to % BOARD_SIZE
          IN  IF ~isCellInActiveGrid(s, targetRow, targetCol)
              THEN Thrown("DestinationOutsideWindow", s)  \* "Can only move into the active grid"
              ELSE Returned(
                     [ board |-> [s.board EXCEPT ![action.from] = EMPTY, ![action.to] = player],
                       activeX |-> s.activeX,
                       activeY |-> s.activeY,
                       placementsByPlayer |-> s.placementsByPlayer ])
    ELSE
        IF ~hasReachedMovementMinimum(s, player)
        THEN Thrown("ShiftPremature", s)       \* "Must place at least two pieces before shifting the grid"
        ELSE IF ~canShiftGrid(s, action.dx, action.dy)
        THEN Thrown("ShiftOutOfBounds", s)     \* "Invalid grid shift"
        ELSE Returned(
               [ board |-> s.board,
                 activeX |-> s.activeX + action.dx,
                 activeY |-> s.activeY + action.dy,
                 placementsByPlayer |-> s.placementsByPlayer ])

applyAction(s, action, player) ==
    IF action.type = "place" THEN
        IF hasReachedPlacementLimit(s, player)
        THEN Thrown("PlacementOverLimit", s)   \* "Cannot place more than four pieces..."
        ELSE IF CellAt(s.board, action.index) # EMPTY
        THEN Thrown("CellOccupied", s)         \* "Cannot place on an occupied cell"
        ELSE Returned(
               [ board |-> [s.board EXCEPT ![action.index] = player],
                 activeX |-> s.activeX,
                 activeY |-> s.activeY,
                 placementsByPlayer |->
                    [s.placementsByPlayer EXCEPT ![player] = s.placementsByPlayer[player] + 1] ])
    ELSE IF action.type = "move" THEN
        IF ~hasReachedMovementMinimum(s, player)
        THEN Thrown("MovementPremature", s)    \* "Must place at least two pieces before moving a peg"
        ELSE IF CellAt(s.board, action.from) # player
        THEN Thrown("NotOwnPiece", s)          \* "Can only move your own pieces"
        ELSE IF CellAt(s.board, action.to) # EMPTY
        THEN Thrown("DestinationOccupied", s)  \* "Destination cell must be empty"
        ELSE
          LET targetRow == action.to \div BOARD_SIZE
              targetCol == action.to % BOARD_SIZE
          IN  IF ~isCellInActiveGrid(s, targetRow, targetCol)
              THEN Thrown("DestinationOutsideWindow", s)  \* "Can only move into the active grid"
              ELSE Returned(
                     [ board |-> [s.board EXCEPT ![action.from] = EMPTY, ![action.to] = player],
                       activeX |-> s.activeX,
                       activeY |-> s.activeY,
                       placementsByPlayer |-> s.placementsByPlayer ])
    ELSE
        IF ~hasReachedMovementMinimum(s, player)
        THEN Thrown("ShiftPremature", s)       \* "Must place at least two pieces before shifting the grid"
        ELSE IF ~canShiftGrid(s, action.dx, action.dy)
        THEN Thrown("ShiftOutOfBounds", s)     \* "Invalid grid shift"
        ELSE Returned(
               [ board |-> s.board,
                 activeX |-> s.activeX + action.dx,
                 activeY |-> s.activeY + action.dy,
                 placementsByPlayer |-> s.placementsByPlayer ])

\* getWinner: the eight window-relative lines, tested in order; the first
\* complete one decides.
\* LineCell read at board-relative instead of window-relative coordinates
LineCell_unshifted(s, line, k) ==
    s.board[line[k][1] * BOARD_SIZE + line[k][2]]

LineCell(s, line, k) ==
    s.board[(s.activeY + line[k][1]) * BOARD_SIZE + s.activeX + line[k][2]]

LineComplete(s, line) ==
    /\ LineCell(s, line, 1) # EMPTY
    /\ LineCell(s, line, 2) = LineCell(s, line, 1)
    /\ LineCell(s, line, 3) = LineCell(s, line, 1)

NULL == "null"

getWinner(s) ==
    LET complete == { i \in 1..Len(relativeWinningLines) :
                        LineComplete(s, relativeWinningLines[i]) }
    IN  IF complete = {} THEN NULL
        ELSE LineCell(s, relativeWinningLines[CHOOSE i \in complete : \A j \in complete : i <= j], 1)

\* isDraw that reports every full board as drawn
isDraw_fullBoard(s) ==
    IF \E i \in DOMAIN s.board : s.board[i] = EMPTY
    THEN FALSE
    ELSE TRUE

isDraw(s) ==
    IF \E i \in DOMAIN s.board : s.board[i] = EMPTY
    THEN FALSE
    ELSE getWinner(s) = NULL

\* getStateKey: the 25 cells, "|", activeX "," activeY, "|", the side to move,
\* "|", placements of X "," placements of O, concatenated into one string
\* the cells of one row, and of the whole board, appended in index order
RowString(board, row) ==
    board[toIndex(row, 0)] \o board[toIndex(row, 1)] \o board[toIndex(row, 2)]
        \o board[toIndex(row, 3)] \o board[toIndex(row, 4)]

BoardString(board) ==
    RowString(board, 0) \o RowString(board, 1) \o RowString(board, 2)
        \o RowString(board, 3) \o RowString(board, 4)

\* getStateKey without the side to move
getStateKey_noSide(s, player) ==
    BoardString(s.board) \o "|" \o ToString(s.activeX) \o "," \o ToString(s.activeY)
        \o "|" \o "|"
        \o ToString(s.placementsByPlayer["X"]) \o "," \o ToString(s.placementsByPlayer["O"])

getStateKey(s, player) ==
    BoardString(s.board) \o "|" \o ToString(s.activeX) \o "," \o ToString(s.activeY)
        \o "|" \o player \o "|"
        \o ToString(s.placementsByPlayer["X"]) \o "," \o ToString(s.placementsByPlayer["O"])

\* getNextStateKey throws when applyAction throws; callers here pass accepted actions
getNextStateKey(s, action, player) ==
    getStateKey(applyAction(s, action, player).state, getOpponent(player))

\* wouldRepeatState that finds no action repeating
wouldRepeatState_never(s, action, player, hist) == FALSE

wouldRepeatState(s, action, player, hist) == getNextStateKey(s, action, player) \in hist

-----------------------------------------------------------------------------
(* Evaluation, evaluation.ts                                               *)

\* the default evaluation with the signs of win and loss exchanged
defaultHeuristic_inverted(s, winner, aiPlayer, depth) ==
    IF winner = NULL THEN 0
    ELSE IF winner = aiPlayer THEN depth - 10
    ELSE 10 - depth

defaultHeuristic(s, winner, aiPlayer, depth) ==
    IF winner = NULL THEN 0
    ELSE IF winner = aiPlayer THEN 10 - depth
    ELSE depth - 10

\* the lines of the window as [row, col] offsets
RELATIVE_LINES ==
    << << <<0, 0>>, <<0, 1>>, <<0, 2>> >>,
       << <<1, 0>>, <<1, 1>>, <<1, 2>> >>,
       << <<2, 0>>, <<2, 1>>, <<2, 2>> >>,
       << <<0, 0>>, <<1, 0>>, <<2, 0>> >>,
       << <<0, 1>>, <<1, 1>>, <<2, 1>> >>,
       << <<0, 2>>, <<1, 2>>, <<2, 2>> >>,
       << <<0, 0>>, <<1, 1>>, <<2, 2>> >>,
       << <<0, 2>>, <<1, 1>>, <<2, 0>> >> >>

\* the cells of one line of the window, as the board holds them
lineCells(s, line) ==
    [k \in 1..Len(line) |-> s.board[toIndex(s.activeY + line[k][1], s.activeX + line[k][2])]]

countOf(cells, c) == Cardinality({ k \in 1..Len(cells) : cells[k] = c })

\* the lines of the window with two cells of the player and the third empty
countThreats(s, player) ==
    Cardinality({ l \in 1..Len(RELATIVE_LINES) :
                    /\ countOf(lineCells(s, RELATIVE_LINES[l]), player) = 2
                    /\ countOf(lineCells(s, RELATIVE_LINES[l]), EMPTY) = 1 })

countPiecesInActiveGrid(s, player) ==
    Cardinality({ k \in 1..Len(getActiveIndices(s)) : s.board[getActiveIndices(s)[k]] = player })

hasCenter(s, player) == s.board[toIndex(s.activeY + 1, s.activeX + 1)] = player

\* the positional evaluation scoring every win alike, whatever its depth
positionalEvaluate_flatWin(s, winner, aiPlayer, depth) ==
    IF winner # NULL
    THEN IF winner = aiPlayer THEN 100 ELSE 0 - 100
    ELSE 0

\* a decisive score for a win, and for the other positions threats (3 each),
\* pieces in the window (1 each) and the centre of the window (2)
positionalEvaluate(s, winner, aiPlayer, depth) ==
    IF winner # NULL
    THEN IF winner = aiPlayer THEN 100 - depth ELSE depth - 100
    ELSE countThreats(s, aiPlayer) * 3 - countThreats(s, getOpponent(aiPlayer)) * 3
         + countPiecesInActiveGrid(s, aiPlayer) - countPiecesInActiveGrid(s, getOpponent(aiPlayer))
         + (IF hasCenter(s, aiPlayer) THEN 2 ELSE 0)
         - (IF hasCenter(s, getOpponent(aiPlayer)) THEN 2 ELSE 0)

\* the evaluate argument of the search, named as the plugin registry names
\* it: the positional plugin, and the default one for every other name
EvaluationFunction(evaluate, s, winner, aiPlayer, depth) ==
    IF evaluate = "positional"
    THEN positionalEvaluate(s, winner, aiPlayer, depth)
    ELSE defaultHeuristic(s, winner, aiPlayer, depth)

\* values of the host language as far as the registry tells them apart
JSUndefined == [type |-> "undefined", value |-> ""]
JSNumber == [type |-> "number", value |-> "7"]
JSString(str) == [type |-> "string", value |-> str]
JSFunction(id) == [type |-> "function", value |-> id]
JSNull == [type |-> "null"]

EvaluationPlugin(name, description, evaluate) ==
    [type |-> "object", name |-> name, description |-> description, evaluate |-> evaluate]

DEFAULT_EVALUATION_PLUGIN ==
    EvaluationPlugin(JSString("default"),
                     JSString("Terminal-only: +10-depth for wins, depth-10 for losses, 0 for draws"),
                     JSFunction("defaultHeuristic"))

POSITIONAL_EVALUATION_PLUGIN ==
    EvaluationPlugin(JSString("positional"),
                     JSString("Scores threats (two-in-a-row), center control, and active-grid presence"),
                     JSFunction("positionalEvaluate"))

\* the registry as first built: the two built-in plugins
BuiltInRegistry == << DEFAULT_EVALUATION_PLUGIN, POSITIONAL_EVALUATION_PLUGIN >>

\* !value of the host language, for the values the registry meets
falsy(v) ==
    \/ v.type \in {"null", "undefined"}
    \/ v.type = "string" /\ v.value = ""

\* pluginRegistry.has(name) and pluginRegistry.get(name)
registryHas(registry, name) ==
    \E k \in 1..Len(registry) : registry[k].name = name

registryGet(registry, name) ==
    registry[CHOOSE k \in 1..Len(registry) : registry[k].name = name]

\* pluginRegistry.set: a known name keeps its place and takes the new plugin,
\* a new name is added at the end
registrySet(registry, name, plugin) ==
    IF registryHas(registry, name)
    THEN [k \in 1..Len(registry) |-> IF registry[k].name = name THEN plugin ELSE registry[k]]
    ELSE Append(registry, plugin)

\* registerEvaluationPlugin that takes a plugin without looking at its name
registerEvaluationPlugin_nameUnchecked(registry, plugin) ==
    IF \/ falsy(plugin)
       \/ plugin.evaluate.type # "function"
    THEN [error |-> "InvalidPlugin", registry |-> registry]
    ELSE [error |-> "none", registry |-> registrySet(registry, plugin.name, plugin)]

registerEvaluationPlugin(registry, plugin) ==
    IF \/ falsy(plugin)
       \/ plugin.evaluate.type # "function"
       \/ plugin.name.type # "string"
       \/ falsy(plugin.name)
    THEN [error |-> "InvalidPlugin", registry |-> registry]
    ELSE [error |-> "none", registry |-> registrySet(registry, plugin.name, plugin)]

getEvaluationPlugin(registry, name) ==
    IF ~falsy(name) /\ registryHas(registry, name)
    THEN registryGet(registry, name)
    ELSE DEFAULT_EVALUATION_PLUGIN

listEvaluationPlugins(registry) == registry

NoRegistryResult == [error |-> "none", plugin |-> JSNull, listing |-> << >>]

-----------------------------------------------------------------------------
(* Search, minimax.ts                                                      *)

Infinity == 1000000
NoAction == [type |-> "undefined"]

evaluateTerminal(s, winner, aiPlayer, depth, evaluate) ==
    EvaluationFunction(evaluate, s, winner, aiPlayer, depth)

\* what a call of minimax leaves behind: its MinimaxResult, the visited set as
\* it stands on return, the nodes it counted, and the error it threw (if any)
MinimaxResult(score, action, pv, visited, nodes, error) ==
    [ score |-> score, action |-> action, pv |-> pv,
      visited |-> visited, nodesVisited |-> nodes, error |-> error ]

\* the error of the first enumerated action that applyAction rejects, if any
FirstError(s, actions, player) ==
    LET rejected == { i \in 1..Len(actions) : applyAction(s, actions[i], player).error # "none" }
    IN  IF rejected = {} THEN "none"
        ELSE applyAction(s, actions[CHOOSE i \in rejected : \A j \in rejected : i <= j], player).error

\* the filter that lets every action through
filterByHistory_keepAll(s, allActions, player, hist) == allActions

\* the filter that takes the key of the successor with the side that moved,
\* not the side to move next
filterByHistory_ownKey(s, allActions, player, hist) ==
    SelectSeq(allActions, LAMBDA a : getStateKey(applyAction(s, a, player).state, player) \notin hist)

\* allActions.filter(action => !history.has(key of the successor position))
filterByHistory(s, allActions, player, hist) ==
    SelectSeq(allActions, LAMBDA a : ~wouldRepeatState(s, a, player, hist))

RECURSIVE minimax(_, _, _, _, _, _, _, _)
RECURSIVE minimaxLoop(_, _, _, _, _, _, _, _, _, _, _)

\* the comparison and assignments of a loop body: result replaces the best so
\* far when strictly better (greater for the maximiser, smaller for the minimiser)
keepBetter(maximising, action, acc, result) ==
    LET better == IF maximising
                  THEN result.score > acc.score
                  ELSE result.score < acc.score
    IN  MinimaxResult(
            IF better THEN result.score ELSE acc.score,
            IF better THEN action ELSE acc.action,
            IF better THEN <<action>> \o result.pv ELSE acc.pv,
            result.visited,
            acc.nodesVisited + result.nodesVisited,
            result.error)

\* one iteration of the for-loops of minimax; acc carries bestScore,
\* bestAction, bestPV, the shared visited set, the node count and a throw
minimaxStep(s, currentPlayer, aiPlayer, depth, maxDepth, hist, evaluate, action, acc) ==
    IF acc.error # "none" THEN acc
    ELSE
      LET nextState == applyAction(s, action, currentPlayer)
      IN  IF nextState.error # "none"
          THEN [acc EXCEPT !.error = nextState.error]
          ELSE keepBetter(currentPlayer = aiPlayer, action, acc,
                          minimax(nextState.state, getOpponent(currentPlayer), aiPlayer,
                                  depth + 1, maxDepth, acc.visited, hist, evaluate))

\* the for-loops of minimax (maximiser when currentPlayer = aiPlayer, minimiser
\* otherwise) over actions[lo..hi] in order: the iterations of the first half
\* of the range, then those of the second half
minimaxLoop(s, currentPlayer, aiPlayer, depth, maxDepth, hist, evaluate, actions, lo, hi, acc) ==
    IF lo > hi \/ acc.error # "none" THEN acc
    ELSE IF lo = hi
    THEN minimaxStep(s, currentPlayer, aiPlayer, depth, maxDepth, hist, evaluate, actions[lo], acc)
    ELSE minimaxLoop(s, currentPlayer, aiPlayer, depth, maxDepth, hist, evaluate, actions,
                     ((lo + hi) \div 2) + 1, hi,
                     minimaxLoop(s, currentPlayer, aiPlayer, depth, maxDepth, hist, evaluate, actions,
                                 lo, (lo + hi) \div 2, acc))

\* visited.has(key) that never finds the key
visitedHas_never(visited, key) == FALSE

\* visited.has(key)
visitedHas(visited, key) == key \in visited

\* a return of evaluateTerminal's score with an empty pv
leaf(s, winner, aiPlayer, depth, evaluate, visited) ==
    MinimaxResult(evaluateTerminal(s, winner, aiPlayer, depth, evaluate),
                  NoAction, << >>, visited, 1, "none")

\* visited.delete(key) ahead of the return that follows the loop
unmark(key, done) ==
    IF done.error # "none" THEN done
    ELSE [done EXCEPT !.visited = done.visited \ {key}]

\* minimax from the test of actions.length on: actions are those the history
\* filter has left, the key of the node is in the visited set
searchActions(s, currentPlayer, aiPlayer, depth, maxDepth, visited, hist, evaluate, key, actions) ==
    IF Len(actions) = 0
    THEN leaf(s, NULL, aiPlayer, depth, evaluate, (visited \cup {key}) \ {key})
    ELSE unmark(key,
                minimaxLoop(s, currentPlayer, aiPlayer, depth, maxDepth,
                            hist, evaluate, actions, 1, Len(actions),
                            MinimaxResult(
                                IF currentPlayer = aiPlayer THEN 0 - Infinity ELSE Infinity,
                                NoAction, << >>, visited \cup {key}, 1, "none")))

\* minimax that tests the depth limit ahead of the winner
minimax_limitFirst(s, currentPlayer, aiPlayer, depth, maxDepth, visited, hist, evaluate) ==
    LET winner == getWinner(s)
        key == getStateKey(s, currentPlayer)
        allActions == getAvailableActions(s, currentPlayer)
        thrown == FirstError(s, allActions, currentPlayer)
    IN  IF depth >= maxDepth THEN leaf(s, NULL, aiPlayer, depth, evaluate, visited)
        ELSE IF winner # NULL THEN leaf(s, winner, aiPlayer, depth, evaluate, visited)
        ELSE IF isDraw(s) THEN leaf(s, NULL, aiPlayer, depth, evaluate, visited)
        ELSE IF visitedHas(visited, key) THEN leaf(s, NULL, aiPlayer, depth, evaluate, visited)
        ELSE IF thrown # "none"
        THEN MinimaxResult(0, NoAction, << >>, visited \cup {key}, 1, thrown)
        ELSE searchActions(s, currentPlayer, aiPlayer, depth, maxDepth, visited, hist, evaluate, key,
                           filterByHistory(s, allActions, currentPlayer, hist))

minimax(s, currentPlayer, aiPlayer, depth, maxDepth, visited, hist, evaluate) ==
    LET winner == getWinner(s)
        key == getStateKey(s, currentPlayer)
        allActions == getAvailableActions(s, currentPlayer)
        thrown == FirstError(s, allActions, currentPlayer)
    IN  IF winner # NULL THEN leaf(s, winner, aiPlayer, depth, evaluate, visited)
        ELSE IF isDraw(s) THEN leaf(s, NULL, aiPlayer, depth, evaluate, visited)
        ELSE IF depth >= maxDepth THEN leaf(s, NULL, aiPlayer, depth, evaluate, visited)
        ELSE IF visitedHas(visited, key) THEN leaf(s, NULL, aiPlayer, depth, evaluate, visited)
        ELSE IF thrown # "none"
        THEN MinimaxResult(0, NoAction, << >>, visited \cup {key}, 1, thrown)
        ELSE searchActions(s, currentPlayer, aiPlayer, depth, maxDepth, visited, hist, evaluate, key,
                           filterByHistory(s, allActions, currentPlayer, hist))

EngineEvaluation(score, action, pv) == [score |-> score, action |-> action, pv |-> pv]

\* Array.prototype.sort with (a, b) => b.score - a.score: stable, descending.
\* RankByScore is the position the k-th evaluation is sorted to: after those of
\* a greater score and after the earlier ones of an equal score.
RankByScore(evals, k) ==
    1 + Cardinality({ j \in 1..Len(evals) :
                        \/ evals[j].score > evals[k].score
                        \/ (evals[j].score = evals[k].score /\ j < k) })

\* a sort that leaves the evaluations in the order of the root actions
SortByScore_unsorted(evals) ==
    [ p \in 1..Len(evals) |-> evals[p] ]

SortByScore(evals) ==
    [ p \in 1..Len(evals) |-> evals[CHOOSE k \in 1..Len(evals) : RankByScore(evals, k) = p] ]

\* stats.nodesVisited after the searches lo..hi: the nodes each of them counted
RECURSIVE SumNodes(_, _, _)
SumNodes(results, lo, hi) ==
    IF lo > hi THEN 0
    ELSE IF lo = hi THEN results[lo].nodesVisited
    ELSE SumNodes(results, lo, (lo + hi) \div 2) + SumNodes(results, ((lo + hi) \div 2) + 1, hi)

EngineResult(evals, nodes, error) ==
    [ evaluations |-> evals, stats |-> [nodesVisited |-> nodes], error |-> error ]

\* actions.map(action => minimax(successor, opponent, aiPlayer, 1, depthLimit,
\* new Set([rootKey]), history, stats, evaluate)) over actions[lo..hi], in order
RECURSIVE rootSearches(_, _, _, _, _, _, _, _)
rootSearches(s, aiPlayer, hist, depthLimit, evaluate, actions, lo, hi) ==
    IF lo > hi THEN << >>
    ELSE IF lo = hi
    THEN << minimax(applyAction(s, actions[lo], aiPlayer).state, getOpponent(aiPlayer), aiPlayer,
                    1, depthLimit, {getStateKey(s, aiPlayer)}, hist, evaluate) >>
    ELSE rootSearches(s, aiPlayer, hist, depthLimit, evaluate, actions, lo, (lo + hi) \div 2)
         \o rootSearches(s, aiPlayer, hist, depthLimit, evaluate, actions, ((lo + hi) \div 2) + 1, hi)

\* evaluations.sort(...) and the slice of the first count of them
topEvaluations(sorted, count) ==
    IF count > 0
    THEN SubSeq(sorted, 1, IF count < Len(sorted) THEN count ELSE Len(sorted))
    ELSE sorted

\* collectEvaluations that reports the line of each search without the root
\* action in front of it
collectEvaluations_noPrefix(actions, results, count) ==
    LET failed == { k \in 1..Len(actions) : results[k].error # "none" }
    IN  IF failed # {}
        THEN EngineResult(<< >>, 0,
                          results[CHOOSE k \in failed : \A j \in failed : k <= j].error)
        ELSE EngineResult(
                topEvaluations(
                    SortByScore([k \in 1..Len(actions) |->
                                    EngineEvaluation(results[k].score, actions[k],
                                                     results[k].pv)]),
                    count),
                SumNodes(results, 1, Len(results)), "none")

\* what getEngineEvaluations returns once the searches of the root actions
\* are in: the sorted evaluations and stats, or the throw of a search
collectEvaluations(actions, results, count) ==
    LET failed == { k \in 1..Len(actions) : results[k].error # "none" }
    IN  IF failed # {}
        THEN EngineResult(<< >>, 0,
                          results[CHOOSE k \in failed : \A j \in failed : k <= j].error)
        ELSE EngineResult(
                topEvaluations(
                    SortByScore([k \in 1..Len(actions) |->
                                    EngineEvaluation(results[k].score, actions[k],
                                                     <<actions[k]>> \o results[k].pv)]),
                    count),
                SumNodes(results, 1, Len(results)), "none")

\* getEngineEvaluations from the test of actions.length on
searchRoot(s, aiPlayer, hist, depthLimit, count, evaluate, actions) ==
    IF Len(actions) = 0 THEN EngineResult(<< >>, 0, "none")
    ELSE collectEvaluations(actions,
             rootSearches(s, aiPlayer, hist, depthLimit, evaluate, actions, 1, Len(actions)),
             count)

getEngineEvaluations(s, aiPlayer, hist, depthLimit, count, evaluate) ==
    LET allActions == getAvailableActions(s, aiPlayer)
        thrown == FirstError(s, allActions, aiPlayer)
    IN  IF thrown # "none" THEN EngineResult(<< >>, 0, thrown)
        ELSE searchRoot(s, aiPlayer, hist, depthLimit, count, evaluate,
                        filterByHistory(s, allActions, aiPlayer, hist))

\* chooseBestAction that returns without an action where it should throw
firstAction_neverFails(r) ==
    IF r.error # "none" THEN [status |-> "error", error |-> r.error]
    ELSE IF Len(r.evaluations) = 0 THEN [status |-> "ok", action |-> NoAction]
    ELSE [status |-> "ok", action |-> r.evaluations[1].action]

\* the return of chooseBestAction given what getEngineEvaluations returned
firstAction(r) ==
    IF r.error # "none" THEN [status |-> "error", error |-> r.error]
    ELSE IF Len(r.evaluations) = 0 THEN [status |-> "error", error |-> "NoLegalMoves"]
    ELSE [status |-> "ok", action |-> r.evaluations[1].action]

\* chooseBestAction: the action of the first evaluation, or the throw
\* "Minimax could not find a move (all moves likely repeat history)"
chooseBestAction(s, aiPlayer, hist, depthLimit, evaluate) ==
    firstAction(getEngineEvaluations(s, aiPlayer, hist, depthLimit, 1, evaluate))

-----------------------------------------------------------------------------
(* Search with alpha-beta pruning and a transposition table: the twelve-    *)
(* argument minimax(state, currentPlayer, aiPlayer, depth, maxDepth,        *)
(* visited, history, stats, evaluate, alpha, beta, ttable) that             *)
(* tests/minimax-bench.test.js calls, after spec.md 4.4 and 4.5             *)

SearchStats(nodes, hits, cuts) ==
    [ nodesVisited |-> nodes, cacheHits |-> hits, cutoffs |-> cuts ]

\* what a call of search leaves behind: score, best action and line, and the
\* stats and the table as the call has updated them
SearchResult(score, action, pv, st, tt, ended) ==
    [ score |-> score, action |-> action, pv |-> pv, stats |-> st, ttable |-> tt,
      ended |-> ended ]

\* a table entry: score, remaining depth, bound flag and best action
TTEntry(score, depth, flag, action) ==
    [ score |-> score, depth |-> depth, flag |-> flag, bestAction |-> action ]

EmptyTable == << >>
NoEntry == TTEntry(0, -1, "NONE", NoAction)

probeTable(tt, key) == IF key \in DOMAIN tt THEN tt[key] ELSE NoEntry

\* storeEntry that leaves the table as it is
storeEntry_never(tt, key, entry) == tt

\* 4.4 step 9: the entry is stored iff no entry of greater or equal remaining
\* depth is present
storeEntry(tt, key, entry) ==
    IF probeTable(tt, key).depth >= entry.depth THEN tt
    ELSE (key :> entry) @@ tt

\* 4.5: the priority of a candidate action
actionPriority(s, action) ==
    IF action.type = "place" THEN
        LET row == (action.index \div BOARD_SIZE) - s.activeY
            col == (action.index % BOARD_SIZE) - s.activeX
        IN  IF row = 1 /\ col = 1 THEN 100
            ELSE IF row \in {0, 2} /\ col \in {0, 2} THEN 80
            ELSE 60
    ELSE IF action.type = "move" THEN 40
    ELSE 20

\* 4.4 step 7: a stable sort descending by priority, then the best action of
\* the table entry (if among the actions) rotated to the front
orderActions(s, actions, entry) ==
    LET sorted ==
            SelectSeq(actions, LAMBDA a : actionPriority(s, a) = 100)
            \o SelectSeq(actions, LAMBDA a : actionPriority(s, a) = 80)
            \o SelectSeq(actions, LAMBDA a : actionPriority(s, a) = 60)
            \o SelectSeq(actions, LAMBDA a : actionPriority(s, a) = 40)
            \o SelectSeq(actions, LAMBDA a : actionPriority(s, a) = 20)
    IN  IF \E k \in 1..Len(sorted) : sorted[k] = entry.bestAction
        THEN <<entry.bestAction>> \o SelectSeq(sorted, LAMBDA a : a # entry.bestAction)
        ELSE sorted

\* a node that returns without a loop: its score, best action and line, and
\* what it adds to cacheHits and cutoffs
Immediate(score, action, pv, hits, cuts) ==
    [ kind |-> "return", score |-> score, action |-> action, pv |-> pv,
      hits |-> hits, cuts |-> cuts ]

\* a node that enters the loop of step 8: its position, the key of the node,
\* the path with that key on it (step 5), the window it was entered with and
\* the window after the probe, its actions in search order, and the loop
\* variables (the index of the next action, the best score, action and line so
\* far, and whether the loop has broken off)
Expanded(s, currentPlayer, aiPlayer, depth, key, pathSet, alpha0, beta0, alpha, beta, actions) ==
    [ kind |-> "loop", s |-> s, currentPlayer |-> currentPlayer, depth |-> depth, key |-> key,
      pathSet |-> pathSet \cup {key},
      alpha0 |-> alpha0, beta0 |-> beta0, alpha |-> alpha, beta |-> beta,
      actions |-> actions, next |-> 1,
      score |-> IF currentPlayer = aiPlayer THEN 0 - Infinity ELSE Infinity,
      action |-> NoAction, pv |-> << >>, stopped |-> FALSE ]

\* steps 4 to 7: the probe of the table (entry is probeTable(tt, key)), then
\* the actions the history filter leaves, in search order
probeNode(s, currentPlayer, aiPlayer, depth, maxDepth, pathSet, hist, evaluate, alpha, beta, key, entry) ==
    LET usable == entry.flag # "NONE" /\ entry.depth >= maxDepth - depth
        raised == IF usable /\ entry.flag = "LOWERBOUND" /\ entry.score > alpha
                  THEN entry.score ELSE alpha
        lowered == IF usable /\ entry.flag = "UPPERBOUND" /\ entry.score < beta
                   THEN entry.score ELSE beta
        hit == usable /\ entry.flag = "EXACT"
        cut == usable /\ entry.flag # "EXACT" /\ raised >= lowered
        actions == orderActions(s, filterByHistory(s, getAvailableActions(s, currentPlayer),
                                                   currentPlayer, hist),
                                entry)
    IN  CASE hit -> Immediate(entry.score, entry.bestAction, <<entry.bestAction>>, 1, 0)
          [] cut -> Immediate(entry.score, entry.bestAction, <<entry.bestAction>>, 0, 1)
          [] ~hit /\ ~cut /\ Len(actions) = 0 ->
               Immediate(evaluateTerminal(s, NULL, aiPlayer, depth, evaluate), NoAction, << >>, 0, 0)
          [] OTHER ->
               Expanded(s, currentPlayer, aiPlayer, depth, key, pathSet,
                        alpha, beta, raised, lowered, actions)

\* steps 2 to 7 for a node: a winner, a draw, the depth limit or a position
\* already on the path returns at once with an empty line; otherwise the probe
enterNode(s, currentPlayer, aiPlayer, depth, maxDepth, pathSet, hist, evaluate, alpha, beta, tt) ==
    CASE \/ getWinner(s) # NULL
         \/ isDraw(s)
         \/ depth >= maxDepth
         \/ getStateKey(s, currentPlayer) \in pathSet ->
            Immediate(evaluateTerminal(s, getWinner(s), aiPlayer, depth, evaluate),
                      NoAction, << >>, 0, 0)
      [] OTHER ->
            probeNode(s, currentPlayer, aiPlayer, depth, maxDepth, pathSet, hist, evaluate,
                      alpha, beta, getStateKey(s, currentPlayer),
                      probeTable(tt, getStateKey(s, currentPlayer)))

\* the loop variables after the child of actions[next] has returned: best
\* score, action, line, window and the break on alpha >= beta
advance(node, score, action, pv, alpha, beta) ==
    [ node EXCEPT !.score = score, !.action = action, !.pv = pv,
                  !.alpha = alpha, !.beta = beta,
                  !.next = @ + 1, !.stopped = alpha >= beta ]

searchUpdate_windowKept(node, aiPlayer, child) ==
    CASE node.currentPlayer = aiPlayer /\ child.score > node.score ->
            advance(node, child.score, node.actions[node.next],
                    <<node.actions[node.next]>> \o child.pv, node.alpha, node.beta)
      [] node.currentPlayer # aiPlayer /\ child.score < node.score ->
            advance(node, child.score, node.actions[node.next],
                    <<node.actions[node.next]>> \o child.pv, node.alpha, node.beta)
      [] OTHER ->
            advance(node, node.score, node.action, node.pv, node.alpha, node.beta)

\* step 8 for one child: the maximiser keeps a strictly greater score and
\* raises alpha to it, the minimiser keeps a strictly smaller score and lowers
\* beta to it
searchUpdate(node, aiPlayer, child) ==
    CASE node.currentPlayer = aiPlayer /\ child.score > node.score ->
            advance(node, child.score, node.actions[node.next],
                    <<node.actions[node.next]>> \o child.pv,
                    IF child.score > node.alpha THEN child.score ELSE node.alpha, node.beta)
      [] node.currentPlayer # aiPlayer /\ child.score < node.score ->
            advance(node, child.score, node.actions[node.next],
                    <<node.actions[node.next]>> \o child.pv,
                    node.alpha, IF child.score < node.beta THEN child.score ELSE node.beta)
      [] OTHER ->
            advance(node, node.score, node.action, node.pv, node.alpha, node.beta)

\* the search in progress: the nodes whose loops are open, outermost first,
\* the stats and the table, and, once the outermost node has returned, its
\* result
Searching(open, st, tt) ==
    [ open |-> open, stats |-> st, ttable |-> tt, done |-> FALSE,
      score |-> 0, action |-> NoAction, pv |-> << >> ]

\* the node on top of the open ones replaced by its state after a child
replaceTop(open, node) == SubSeq(open, 1, Len(open) - 1) \o <<node>>

\* a child has returned to the node on top: step 8, a cutoff counted where
\* the loop breaks
childReturned(m, node, st, tt) ==
    [ m EXCEPT !.open = replaceTop(m.open, node),
               !.stats = IF node.stopped THEN [st EXCEPT !.cutoffs = @ + 1] ELSE st,
               !.ttable = tt ]

\* steps 9 and 10 for the node on top, whose loop has ended: its result is
\* stored and returned to the node below it, or is the result of the search
nodeReturns(m, node, aiPlayer, tt) ==
    IF Len(m.open) = 1
    THEN [ m EXCEPT !.open = << >>, !.ttable = tt, !.done = TRUE,
                    !.score = node.score, !.action = node.action, !.pv = node.pv ]
    ELSE childReturned([m EXCEPT !.open = SubSeq(m.open, 1, Len(m.open) - 1)],
                       searchUpdate(m.open[Len(m.open) - 1], aiPlayer, node),
                       m.stats, tt)

\* the node on top calls search for its next action: the child is counted,
\* and either returns at once or opens its own loop
childCalled(m, node, aiPlayer, child) ==
    IF child.kind = "return"
    THEN childReturned(m, searchUpdate(node, aiPlayer, child),
                       [ m.stats EXCEPT !.nodesVisited = @ + 1,
                                        !.cacheHits = @ + child.hits,
                                        !.cutoffs = @ + child.cuts ],
                       m.ttable)
    ELSE [ m EXCEPT !.open = Append(m.open, child),
                    !.stats = [m.stats EXCEPT !.nodesVisited = @ + 1] ]

\* the classification of step 9 against the window the node was entered with
boundFlag(node) ==
    IF node.score <= node.alpha0 THEN "UPPERBOUND"
    ELSE IF node.score >= node.beta0 THEN "LOWERBOUND"
    ELSE "EXACT"

\* the next thing the search does: the node on top either ends its loop
\* (broken off or out of actions) and returns, or searches its next action
searchStep(m, aiPlayer, maxDepth, hist, evaluate, node) ==
    IF node.stopped \/ node.next > Len(node.actions)
    THEN nodeReturns(m, node, aiPlayer,
                     storeEntry(m.ttable, node.key,
                                TTEntry(node.score, maxDepth - node.depth, boundFlag(node),
                                        node.action)))
    ELSE childCalled(m, node, aiPlayer,
                     enterNode(applyAction(node.s, node.actions[node.next], node.currentPlayer).state,
                               getOpponent(node.currentPlayer), aiPlayer, node.depth + 1, maxDepth,
                               node.pathSet, hist, evaluate, node.alpha, node.beta, m.ttable))

\* 2^rounds steps of the search, or as many as it takes to be done
RECURSIVE searchSteps(_, _, _, _, _, _)
searchSteps(rounds, m, aiPlayer, maxDepth, hist, evaluate) ==
    CASE m.done -> m
      [] rounds = 0 /\ ~m.done ->
            searchStep(m, aiPlayer, maxDepth, hist, evaluate, m.open[Len(m.open)])
      [] OTHER ->
            searchSteps(rounds - 1,
                        searchSteps(rounds - 1, m, aiPlayer, maxDepth, hist, evaluate),
                        aiPlayer, maxDepth, hist, evaluate)

MaxRounds == 14

\* the result of a search that has run to its end (ended is FALSE where the
\* steps allowed did not suffice)
searchEnded(m) ==
    SearchResult(m.score, m.action, m.pv, m.stats, m.ttable, m.done)

\* what the call of search returns once its root node has been entered
searchFrom(aiPlayer, maxDepth, hist, st, evaluate, tt, root) ==
    IF root.kind = "return"
    THEN SearchResult(root.score, root.action, root.pv,
                      [ st EXCEPT !.nodesVisited = @ + 1,
                                  !.cacheHits = @ + root.hits,
                                  !.cutoffs = @ + root.cuts ],
                      tt, TRUE)
    ELSE searchEnded(searchSteps(MaxRounds,
                                 Searching(<<root>>, [st EXCEPT !.nodesVisited = @ + 1], tt),
                                 aiPlayer, maxDepth, hist, evaluate))

\* spec.md 4.4: search(state, sideToMove, aiSide, depth, maxDepth, pathSet,
\* history, stats, eval, alpha, beta, tt)
search(s, currentPlayer, aiPlayer, depth, maxDepth, pathSet, hist, st, evaluate, alpha, beta, tt) ==
    searchFrom(aiPlayer, maxDepth, hist, st, evaluate, tt,
               enterNode(s, currentPlayer, aiPlayer, depth, maxDepth, pathSet, hist, evaluate,
                         alpha, beta, tt))

\* spec.md 4.7 step 4 for one root action: the search of its successor at
\* depth 1 with the full window, the path holding the root key, and the stats
\* and table the earlier root actions have left
rootStep(s, aiPlayer, hist, maxDepth, evaluate, action, acc) ==
    LET result == search(applyAction(s, action, aiPlayer).state, getOpponent(aiPlayer), aiPlayer,
                         1, maxDepth, {getStateKey(s, aiPlayer)}, hist, acc.stats, evaluate,
                         0 - Infinity, Infinity, acc.ttable)
    IN  [ stats       |-> result.stats,
          ttable      |-> result.ttable,
          ended       |-> acc.ended /\ result.ended,
          evaluations |-> Append(acc.evaluations,
                                 EngineEvaluation(result.score, action, <<action>> \o result.pv)) ]

\* step 4 over actions[lo..hi] in order
RECURSIVE rootLoop(_, _, _, _, _, _, _, _, _)
rootLoop(s, aiPlayer, hist, maxDepth, evaluate, actions, lo, hi, acc) ==
    IF lo > hi \/ ~acc.ended THEN acc
    ELSE IF lo = hi
    THEN rootStep(s, aiPlayer, hist, maxDepth, evaluate, actions[lo], acc)
    ELSE rootLoop(s, aiPlayer, hist, maxDepth, evaluate, actions, ((lo + hi) \div 2) + 1, hi,
                  rootLoop(s, aiPlayer, hist, maxDepth, evaluate, actions, lo, (lo + hi) \div 2, acc))

\* step 5: the stats as the last search has left them, and the evaluations
\* sorted by score, the first count of them kept
rankEvaluations(done, count) ==
    [ stats       |-> done.stats,
      ended       |-> done.ended,
      evaluations |-> topEvaluations(SortByScore(done.evaluations), count) ]

\* 4.7 steps 2 to 5; actions are the root actions the history filter has left
searchRootWithTable(s, aiPlayer, hist, maxDepth, count, evaluate, actions) ==
    IF Len(actions) = 0
    THEN [ stats |-> SearchStats(0, 0, 0), ended |-> TRUE, evaluations |-> << >> ]
    ELSE rankEvaluations(
             rootLoop(s, aiPlayer, hist, maxDepth, evaluate, actions, 1, Len(actions),
                      [ evaluations |-> << >>, stats |-> SearchStats(0, 0, 0),
                        ttable |-> EmptyTable, ended |-> TRUE ]),
             count)

\* spec.md 4.7: getEngineEvaluations of the engine with alpha-beta pruning and
\* one transposition table shared by the root actions
getEngineEvaluationsWithTable(s, aiPlayer, hist, maxDepth, count, evaluate) ==
    searchRootWithTable(s, aiPlayer, hist, maxDepth, count, evaluate,
                        filterByHistory(s, getAvailableActions(s, aiPlayer), aiPlayer, hist))

-----------------------------------------------------------------------------
(* Game play: applyAction called for either player with caller-supplied    *)
(* actions.  A call that throws yields no successor state.                 *)

\* cells the callers of this model address, in the order they are admitted
CellOrder == << 6, 7, 8, 12, 18, 0, 24, 11, 13, 16, 17, 1, 2, 3, 4, 5, 9, 10, 14, 15, 19, 20, 21, 22, 23 >>
MaxInputCells == 6
InputCells == { CellOrder[k] : k \in 1..MaxInputCells }
MaxShift == 2
ShiftInputs == (0 - MaxShift)..MaxShift

NoChoice == [status |-> "none"]
NoStats == [nodesVisited |-> 0]
NoArgs == [depthLimit |-> 0, count |-> 0]
NoBaseline == [status |-> "none"]
NoOptions == [name |-> "none"]
NoDriver == [pc |-> "none"]
NoEpisodeResult == [status |-> "none"]

Init ==
    /\ state = createInitialState
    /\ sideToMove = FIRST_PLAYER
    /\ history = {}
    /\ evaluations = << >>
    /\ stats = NoStats
    /\ callArgs = NoArgs
    /\ chosen = NoChoice
    /\ winnerResult = NULL
    /\ drawResult = FALSE
    /\ lastCall = "none"
    /\ baseline = NoBaseline
    /\ searched = << >>
    /\ ttable = EmptyTable
    /\ scoreResult = 0
    /\ pluginRegistry = BuiltInRegistry
    /\ registryResult = NoRegistryResult
    /\ frames = << >>
    /\ visitedKeys = {}
    /\ options = NoOptions
    /\ driver = NoDriver
    /\ turnHistory = << >>
    /\ published = << >>
    /\ episodeResult = NoEpisodeResult
    /\ keyResult = ""

Place(player, index) ==
    LET r == applyAction(state, PlaceAction(index), player)
    IN  /\ r.error = "none"
        /\ state' = r.state
        /\ UNCHANGED <<sideToMove, history, evaluations, stats, callArgs, chosen, winnerResult, drawResult, lastCall, baseline, searched, ttable, scoreResult, registryVars, keyResult, driverVars, pathVars>>

Move(player, from, to) ==
    LET r == applyAction(state, MoveAction(from, to), player)
    IN  /\ r.error = "none"
        /\ state' = r.state
        /\ UNCHANGED <<sideToMove, history, evaluations, stats, callArgs, chosen, winnerResult, drawResult, lastCall, baseline, searched, ttable, scoreResult, registryVars, keyResult, driverVars, pathVars>>

Shift(player, dx, dy) ==
    LET r == applyAction(state, ShiftAction(dx, dy), player)
    IN  /\ r.error = "none"
        /\ state' = r.state
        /\ UNCHANGED <<sideToMove, history, evaluations, stats, callArgs, chosen, winnerResult, drawResult, lastCall, baseline, searched, ttable, scoreResult, registryVars, keyResult, driverVars, pathVars>>

Next ==
    \/ \E p \in Player, i \in InputCells : Place(p, i)
    \/ \E p \in Player, f \in InputCells, t \in InputCells : Move(p, f, t)
    \/ \E p \in Player, dx \in ShiftInputs, dy \in ShiftInputs : Shift(p, dx, dy)

Spec == Init /\ [][Next]_vars

-----------------------------------------------------------------------------
(* Properties of the game-state model, checked under Spec                  *)

Range(seq) == { seq[k] : k \in 1..Len(seq) }

\* indices a caller may hand to applyAction: every board cell and one off each end
CraftedIndices == (0 - 1)..TOTAL_CELLS

MarkerCount(s, player) == Cardinality({ i \in DOMAIN s.board : s.board[i] = player })

\* the nine cells of the window, written from the corner (not via getActiveIndices)
WindowCells(s) ==
    { r * 5 + c : r \in s.activeY..(s.activeY + 2), c \in s.activeX..(s.activeX + 2) }

Accepted(s, action, player) == applyAction(s, action, player).error = "none"

\* C1: in every reachable state each player's placement counter is at most 4
\* and the number of that player's markers on the board is at most the counter.
C1_PlacementBound ==
    \A p \in Player :
        /\ state.placementsByPlayer[p] <= 4
        /\ MarkerCount(state, p) <= state.placementsByPlayer[p]

\* C1 witness: a player has placed four markers and a fifth placement is refused.
C1_Witness ==
    \E p \in Player :
        /\ state.placementsByPlayer[p] = 4
        /\ MarkerCount(state, p) = 4
        /\ \E i \in InputCells :
              /\ state.board[i] = EMPTY
              /\ applyAction(state, PlaceAction(i), p).error = "PlacementOverLimit"

\* C2: in every reachable state the window corner lies in {0,1,2} x {0,1,2},
\* so all nine window cells are cells of the 5x5 board.
C2_WindowOnBoard ==
    /\ state.activeX \in {0, 1, 2}
    /\ state.activeY \in {0, 1, 2}
    /\ \A k \in 1..9 : getActiveIndices(state)[k] \in 0..24

\* C2 witness: the window has been shifted into a corner of the board, where a
\* further shift outwards is refused.
C2_Witness ==
    /\ state.activeX = 2
    /\ state.activeY = 0
    /\ \E p \in Player : applyAction(state, ShiftAction(1, -1), p).error = "ShiftOutOfBounds"

\* C3: every action enumerated by getAvailableActions for either player is
\* accepted by applyAction in the same state.
C3_EnumeratorSound ==
    \A p \in Player :
        \A a \in Range(getAvailableActions(state, p)) : Accepted(state, a, p)

\* C3 witness: a state away from the initial window in which a player is
\* offered placements, moves and shifts at once.
C3_Witness ==
    /\ state.activeX = 0
    /\ \E p \in Player :
         LET types == { a.type : a \in Range(getAvailableActions(state, p)) }
         IN  types = {"place", "move", "shift"}

\* C4: a shift or a move is enumerated for a player only if that player has
\* placed at least two markers; below two only placements are enumerated.
C4_MovementMinimum ==
    \A p \in Player :
        \A a \in Range(getAvailableActions(state, p)) :
            /\ a.type \in {"shift", "move"} => state.placementsByPlayer[p] >= 2
            /\ state.placementsByPlayer[p] < 2 => a.type = "place"

\* C4 witness: one player has a single marker and is offered placements only,
\* while the other has two and is offered moves and shifts.
C4_Witness ==
    \E p \in Player :
        /\ state.placementsByPlayer[p] = 1
        /\ getAvailableActions(state, p) # << >>
        /\ state.placementsByPlayer[getOpponent(p)] = 2
        /\ \E a \in Range(getAvailableActions(state, getOpponent(p))) : a.type = "move"
        /\ \E a \in Range(getAvailableActions(state, getOpponent(p))) : a.type = "shift"

\* C7: applyAction accepts place(i) for a player only if cell i is one of the
\* nine cells of the active window.
C7_PlaceOnlyInWindow ==
    \A p \in Player :
        \A i \in CraftedIndices :
            Accepted(state, PlaceAction(i), p) => i \in WindowCells(state)

\* the eight unit offsets
UnitOffsets == { <<dx, dy>> \in {-1, 0, 1} \X {-1, 0, 1} : <<dx, dy>> # <<0, 0>> }

\* the enumeration as section 4.1 words it
DocumentedActions(s, p) ==
    LET emptyWindow == { i \in WindowCells(s) : s.board[i] = EMPTY }
        own == { f \in 0..24 : s.board[f] = p }
    IN  { PlaceAction(i) : i \in { j \in emptyWindow : s.placementsByPlayer[p] < 4 } }
        \cup
        { MoveAction(ft[1], ft[2]) :
            ft \in { x \in own \X emptyWindow : s.placementsByPlayer[p] >= 2 } }
        \cup
        { ShiftAction(o[1], o[2]) :
            o \in { x \in UnitOffsets :
                      /\ s.placementsByPlayer[p] >= 2
                      /\ s.activeX + x[1] \in {0, 1, 2}
                      /\ s.activeY + x[2] \in {0, 1, 2} } }

\* C8: getAvailableActions returns exactly the documented placements, moves
\* and shifts, each once, and nothing else.
C8_EnumeratorExact ==
    \A p \in Player :
        LET acts == getAvailableActions(state, p)
        IN  /\ Range(acts) = DocumentedActions(state, p)
            /\ Len(acts) = Cardinality(Range(acts))

\* C8 witness: the window sits off the diagonal at a board edge, the player has
\* markers inside and outside of it and is offered places, moves and shifts.
C8_Witness ==
    /\ state.activeX = 2
    /\ state.activeY = 1
    /\ \E p \in Player :
         /\ state.placementsByPlayer[p] \in {2, 3}
         /\ \E f \in WindowCells(state) : state.board[f] = p
         /\ \E f \in (0..24) \ WindowCells(state) : state.board[f] = p
         /\ { a.type : a \in Range(getAvailableActions(state, p)) } = {"place", "move", "shift"}

ShiftUniverse == (0 - MaxShift - 1)..(MaxShift + 1)

-----------------------------------------------------------------------------
(* Terminal detection as functions of an arbitrary state value: the inputs *)
(* are boards a caller can construct (as the tests do), not only boards    *)
(* reached by play.                                                        *)

\* a board of one background marker overlaid with a full 3x3 pattern of X and O
\* at corner (px, py)
MaxPatternCorner == 1
PatternCorners == 0..MaxPatternCorner
Patterns == [1..(ACTIVE_SIZE * ACTIVE_SIZE) -> Player]

PatternBoard(bg, pat, px, py) ==
    [i \in 0..(TOTAL_CELLS - 1) |->
        LET row == i \div BOARD_SIZE
            col == i % BOARD_SIZE
        IN  IF row >= py /\ row < py + ACTIVE_SIZE /\ col >= px /\ col < px + ACTIVE_SIZE
            THEN pat[(row - py) * ACTIVE_SIZE + (col - px) + 1]
            ELSE bg]

countPlacements(board) == [p \in Player |-> Cardinality({ i \in DOMAIN board : board[i] = p })]

InitFn ==
    /\ \E bg \in Cell, pat \in Patterns, px \in PatternCorners, py \in PatternCorners,
          ax \in 0..(BOARD_SIZE - ACTIVE_SIZE), ay \in 0..(BOARD_SIZE - ACTIVE_SIZE) :
          LET board == PatternBoard(bg, pat, px, py)
          IN  state = [ board |-> board,
                        activeX |-> ax,
                        activeY |-> ay,
                        placementsByPlayer |-> countPlacements(board) ]
    /\ sideToMove = FIRST_PLAYER
    /\ history = {}
    /\ evaluations = << >>
    /\ stats = NoStats
    /\ callArgs = NoArgs
    /\ chosen = NoChoice
    /\ winnerResult = NULL
    /\ drawResult = FALSE
    /\ lastCall = "none"
    /\ baseline = NoBaseline
    /\ searched = << >>
    /\ ttable = EmptyTable
    /\ scoreResult = 0
    /\ pluginRegistry = BuiltInRegistry
    /\ registryResult = NoRegistryResult
    /\ frames = << >>
    /\ visitedKeys = {}
    /\ options = NoOptions
    /\ driver = NoDriver
    /\ turnHistory = << >>
    /\ published = << >>
    /\ episodeResult = NoEpisodeResult
    /\ keyResult = ""

CallGetWinner ==
    /\ lastCall = "none"
    /\ winnerResult' = getWinner(state)
    /\ lastCall' = "getWinner"
    /\ UNCHANGED <<state, sideToMove, history, evaluations, stats, callArgs, chosen, drawResult, baseline, searched, ttable, scoreResult, registryVars, keyResult, driverVars, pathVars>>

CallIsDraw ==
    /\ lastCall = "none"
    /\ drawResult' = isDraw(state)
    /\ lastCall' = "isDraw"
    /\ UNCHANGED <<state, sideToMove, history, evaluations, stats, callArgs, chosen, winnerResult, baseline, searched, ttable, scoreResult, registryVars, keyResult, driverVars, pathVars>>

NextFn == CallGetWinner \/ CallIsDraw

SpecFn == InitFn /\ [][NextFn]_vars

\* the eight lines of the current window as sets of board cells
WindowLines(s) ==
    LET ax == s.activeX
        ay == s.activeY
        at(r, c) == (ay + r) * 5 + ax + c
    IN  { { at(r, 0), at(r, 1), at(r, 2) } : r \in 0..2 }
        \cup { { at(0, c), at(1, c), at(2, c) } : c \in 0..2 }
        \cup { { at(0, 0), at(1, 1), at(2, 2) }, { at(0, 2), at(1, 1), at(2, 0) } }

HoldsLine(s, p) == \E line \in WindowLines(s) : \A i \in line : s.board[i] = p

\* three aligned adjacent cells anywhere on the board (rows, columns, diagonals)
BoardLines ==
    { { r * 5 + c, (r + dr) * 5 + c + dc, (r + 2 * dr) * 5 + c + 2 * dc } :
        <<r, c, dr, dc>> \in
          { q \in (0..4) \X (0..4) \X {-1, 0, 1} \X {0, 1} :
              /\ <<q[3], q[4]>> \in { <<0, 1>>, <<1, 0>>, <<1, 1>>, <<-1, 1>> }
              /\ q[1] + 2 * q[3] \in 0..4
              /\ q[2] + 2 * q[4] \in 0..4 } }

\* C5: getWinner returns a player only if that player holds all three cells of
\* one of the eight lines of the current window, and returns null whenever no
\* line of the current window is complete.
C5_WindowOnlyWinner ==
    lastCall = "getWinner" =>
        /\ \A p \in Player : winnerResult = p => HoldsLine(state, p)
        /\ (~\E p \in Player : HoldsLine(state, p)) => winnerResult = NULL
        /\ winnerResult \in Player \cup {NULL}

\* C5 witness: getWinner has returned null for a board on which a player holds
\* three aligned markers that are not all inside the current window.
C5_Witness ==
    /\ lastCall = "getWinner"
    /\ winnerResult = NULL
    /\ \E p \in Player : \E line \in BoardLines :
          /\ \A i \in line : state.board[i] = p
          /\ line \cap WindowCells(state) # {}
          /\ ~(line \subseteq WindowCells(state))

\* C5 second witness: getWinner has returned a player for a line inside a
\* window that is not the initial one.
C5_WitnessWin ==
    /\ lastCall = "getWinner"
    /\ winnerResult \in Player
    /\ state.activeX = 2
    /\ state.activeY = 0

\* C6: isDraw is true exactly when no cell of the whole board is empty and
\* getWinner is null; no state is both won and drawn.
C6_DrawExact ==
    lastCall = "isDraw" =>
        /\ drawResult <=> ((\A i \in 0..24 : state.board[i] # EMPTY)
                            /\ ~\E p \in Player : HoldsLine(state, p))
        /\ ~(drawResult /\ getWinner(state) # NULL)

\* C6 witness: isDraw has returned true for a full board without a window line.
C6_Witness ==
    /\ lastCall = "isDraw"
    /\ drawResult = TRUE
    /\ \A i \in 0..24 : state.board[i] # EMPTY

-----------------------------------------------------------------------------
(* The engine called on positions a caller holds, with a history the       *)
(* caller has filled (as tests/repetition.test.js does with the key of a   *)
(* successor position).                                                    *)

\* positions the tests build: the opening, one marker down with O to move,
\* X on the first two window cells, and a full window with all markers placed
once == applyAction(createInitialState, PlaceAction(6), "X").state

twoInRow == applyAction(once, PlaceAction(7), "X").state

\* a position of play: X on 6, O on 7, X on 12, and O to move must take 18
mustBlock ==
    applyAction(applyAction(once, PlaceAction(7), "O").state, PlaceAction(12), "X").state

fillPattern == << "X", "O", "X", "O", "O", "X", "X", "X", "O" >>

fullState ==
    [ createInitialState EXCEPT
        !.board = PatternBoard(EMPTY, fillPattern, INITIAL_ACTIVE_COORD, INITIAL_ACTIVE_COORD),
        !.placementsByPlayer = [p \in Player |-> FIRST_PLAYER_PIECES] ]

Fixtures ==
    { <<createInitialState, "X">>, <<once, "O">>, <<twoInRow, "X">>, <<mustBlock, "O">>,
      <<fullState, "X">> }

MaxHistory == 1
MaxDepth == 2
MaxCount == 2

\* the first enumerated action of each type
SeedActions(s, player) ==
    LET acts == getAvailableActions(s, player)
    IN  { acts[k] : k \in { j \in 1..Len(acts) :
                              \A i \in 1..(j - 1) : acts[i].type # acts[j].type } }

InitEngine ==
    /\ \E f \in Fixtures : state = f[1] /\ sideToMove = f[2]
    /\ history = {}
    /\ evaluations = << >>
    /\ stats = NoStats
    /\ callArgs = NoArgs
    /\ chosen = NoChoice
    /\ winnerResult = NULL
    /\ drawResult = FALSE
    /\ lastCall = "none"
    /\ baseline = NoBaseline
    /\ searched = << >>
    /\ ttable = EmptyTable
    /\ scoreResult = 0
    /\ pluginRegistry = BuiltInRegistry
    /\ registryResult = NoRegistryResult
    /\ frames = << >>
    /\ visitedKeys = {}
    /\ options = NoOptions
    /\ driver = NoDriver
    /\ turnHistory = << >>
    /\ published = << >>
    /\ episodeResult = NoEpisodeResult
    /\ keyResult = ""

\* the caller records the key of the position an action would lead to
SeedHistory(action) ==
    /\ lastCall = "none"
    /\ Cardinality(history) < MaxHistory
    /\ getNextStateKey(state, action, sideToMove) \notin history
    /\ history' = history \cup {getNextStateKey(state, action, sideToMove)}
    /\ UNCHANGED <<state, sideToMove, evaluations, stats, callArgs, chosen, winnerResult, drawResult, lastCall, baseline, searched, ttable, scoreResult, registryVars, keyResult, driverVars, pathVars>>

\* the caller records the key of the current position (addStateToHistory)
RecordPosition ==
    /\ lastCall = "none"
    /\ Cardinality(history) < MaxHistory
    /\ getStateKey(state, sideToMove) \notin history
    /\ history' = history \cup {getStateKey(state, sideToMove)}
    /\ UNCHANGED <<state, sideToMove, evaluations, stats, callArgs, chosen, winnerResult, drawResult, lastCall, baseline, searched, ttable, scoreResult, registryVars, keyResult, driverVars, pathVars>>

\* the caller holds a history with the key of every position the side to move
\* can reach in one action
RecordEverySuccessor ==
    /\ lastCall = "none"
    /\ history = {}
    /\ history' = { getNextStateKey(state, a, sideToMove) :
                      a \in Range(getAvailableActions(state, sideToMove)) }
    /\ UNCHANGED <<state, sideToMove, evaluations, stats, callArgs, chosen, winnerResult, drawResult, lastCall, baseline, searched, ttable, scoreResult, registryVars, keyResult, driverVars, pathVars>>

CallGetEngineEvaluations(depthLimit, count) ==
    /\ lastCall = "none"
    /\ \E r \in {getEngineEvaluations(state, sideToMove, history, depthLimit, count, "default")} :
           /\ r.error = "none"
           /\ evaluations' = r.evaluations
           /\ stats' = r.stats
    /\ callArgs' = [depthLimit |-> depthLimit, count |-> count]
    /\ lastCall' = "getEngineEvaluations"
    /\ UNCHANGED <<state, sideToMove, history, chosen, winnerResult, drawResult, baseline, searched, ttable, scoreResult, registryVars, keyResult, driverVars, pathVars>>

CallChooseBestAction(depthLimit) ==
    /\ lastCall = "none"
    /\ chosen' = chooseBestAction(state, sideToMove, history, depthLimit, "default")
    /\ callArgs' = [depthLimit |-> depthLimit, count |-> 1]
    /\ lastCall' = "chooseBestAction"
    /\ UNCHANGED <<state, sideToMove, history, evaluations, stats, winnerResult, drawResult, baseline, searched, ttable, scoreResult, registryVars, keyResult, driverVars, pathVars>>

NextEngine ==
    \/ \E a \in SeedActions(state, sideToMove) : SeedHistory(a)
    \/ RecordPosition
    \/ RecordEverySuccessor
    \/ \E d \in 1..MaxDepth, k \in -1..MaxCount : CallGetEngineEvaluations(d, k)
    \/ \E d \in 1..MaxDepth : CallChooseBestAction(d)

SpecEngine == InitEngine /\ [][NextEngine]_vars

C10_WitnessEvaluations ==
    /\ lastCall = "getEngineEvaluations"
    /\ callArgs.count = 0
    /\ \E a \in SeedActions(state, sideToMove) : getNextStateKey(state, a, sideToMove) \in history
    /\ Len(evaluations) = Len(getAvailableActions(state, sideToMove)) - 1

\* C11: when getEngineEvaluations is called without a repetition rule and
\* reports all evaluations, every enumerated root action whose successor
\* position key is in history is among the reported evaluations.
C11_DefaultKeepsRepeats ==
    (lastCall = "getEngineEvaluations" /\ callArgs.count = 0) =>
        \A a \in Range(getAvailableActions(state, sideToMove)) :
            wouldRepeatState(state, a, sideToMove, history) =>
                \E k \in 1..Len(evaluations) : evaluations[k].action = a

\* the root actions the history filter leaves
UnblockedActions ==
    { a \in Range(getAvailableActions(state, sideToMove)) :
        ~wouldRepeatState(state, a, sideToMove, history) }

\* C12: chooseBestAction fails with NoLegalMoves exactly when no enumerated
\* root action is left by the history filter; otherwise it returns the action
\* of the first evaluation of getEngineEvaluations with K = 1, which is one of
\* getAvailableActions(state, aiPlayer).
C12_ChooseBest ==
    lastCall = "chooseBestAction" =>
        /\ (chosen.status = "error") <=> (UnblockedActions = {})
        /\ chosen.status = "error" => chosen.error = "NoLegalMoves"
        /\ chosen.status = "ok" =>
              /\ chosen.action \in Range(getAvailableActions(state, sideToMove))
              /\ LET r == getEngineEvaluations(state, sideToMove, history,
                                               callArgs.depthLimit, 1, "default")
                 IN  /\ Len(r.evaluations) = 1
                     /\ chosen.action = r.evaluations[1].action

\* C12 witness: every enumerated action leads to a position in history and
\* chooseBestAction has failed with NoLegalMoves.
C12_Witness ==
    /\ lastCall = "chooseBestAction"
    /\ getAvailableActions(state, sideToMove) # << >>
    /\ UnblockedActions = {}
    /\ chosen.status = "error"
    /\ chosen.error = "NoLegalMoves"

\* C12 second witness: with one action blocked by history, chooseBestAction
\* has returned an enumerated action.
C12_WitnessReturn ==
    /\ lastCall = "chooseBestAction"
    /\ history # {}
    /\ UnblockedActions # {}
    /\ chosen.status = "ok"
    /\ chosen.action \in UnblockedActions

\* the evaluations of all root actions the history filter leaves, as the
\* call of the last action reports them when asked for all
AllEvaluations ==
    getEngineEvaluations(state, sideToMove, history, callArgs.depthLimit, 0, "default").evaluations

C13_WitnessAll ==
    /\ lastCall = "getEngineEvaluations"
    /\ callArgs.count < 0
    /\ Len(evaluations) > MaxCount
    /\ Len(evaluations) = Cardinality(UnblockedActions)

\* pv played from position s with player to move first and the sides
\* alternating: TRUE when applyAction accepts every step
RECURSIVE LineAccepted(_, _, _)
LineAccepted(s, pv, player) ==
    IF pv = << >> THEN TRUE
    ELSE LET r == applyAction(s, Head(pv), player)
         IN  /\ r.error = "none"
             /\ LineAccepted(r.state, Tail(pv), getOpponent(player))

\* C14: every principal variation getEngineEvaluations reports starts with
\* the action of its evaluation, has between 1 and maxDepth steps, and is
\* accepted by applyAction step by step from the root position with the
\* sides alternating from aiPlayer.
C14_PVLegal ==
    lastCall = "getEngineEvaluations" =>
        \A k \in 1..Len(evaluations) :
            /\ Len(evaluations[k].pv) >= 1
            /\ Len(evaluations[k].pv) <= callArgs.depthLimit
            /\ evaluations[k].pv[1] = evaluations[k].action
            /\ LineAccepted(state, evaluations[k].pv, sideToMove)

\* C14 witness: a reported line of maxDepth >= 2 steps, and a reported line
\* that a win ends before maxDepth.
C14_Witness ==
    /\ lastCall = "getEngineEvaluations"
    /\ callArgs.depthLimit >= 2
    /\ \E k \in 1..Len(evaluations) : Len(evaluations[k].pv) = callArgs.depthLimit
    /\ \E k \in 1..Len(evaluations) :
          /\ Len(evaluations[k].pv) < callArgs.depthLimit
          /\ LineAccepted(state, evaluations[k].pv, sideToMove)

\* the root actions left by the history filter whose successor state is won
\* by the side to move
WinningActions ==
    { a \in UnblockedActions :
        getWinner(applyAction(state, a, sideToMove).state) = sideToMove }

FilledWindow(ax, ay, fill, placedX, placedO) ==
    LET w == [state EXCEPT !.activeX = ax, !.activeY = ay]
    IN  [ w EXCEPT
            !.board = [ i \in 0..(TOTAL_CELLS - 1) |->
                          IF i \in WindowCells(w) /\ state.board[i] = EMPTY
                          THEN fill ELSE state.board[i] ],
            !.placementsByPlayer = [p \in Player |-> IF p = "X" THEN placedX ELSE placedO] ]

\* C16: in a state with no empty cell in the active window getAvailableActions
\* returns neither a place nor a move action, and with both counters at 4
\* chooseBestAction returns a shift with (dx, dy) # (0, 0).
C16_FullWindowShift ==
    /\ \A ax \in 0..(BOARD_SIZE - ACTIVE_SIZE), ay \in 0..(BOARD_SIZE - ACTIVE_SIZE) :
         \A fill \in Player, placedX \in 0..MAX_PLACEMENTS_PER_PLAYER,
            placedO \in 0..MAX_PLACEMENTS_PER_PLAYER, p \in Player :
             \A a \in Range(getAvailableActions(FilledWindow(ax, ay, fill, placedX, placedO), p)) :
                 /\ a.type = "shift"
                 /\ <<a.dx, a.dy>> # <<0, 0>>
    /\ ( /\ lastCall = "chooseBestAction"
         /\ \A i \in WindowCells(state) : state.board[i] # EMPTY
         /\ \A p \in Player : state.placementsByPlayer[p] = MAX_PLACEMENTS_PER_PLAYER )
       => /\ (chosen.status = "ok") <=> (UnblockedActions # {})
          /\ chosen.status = "ok" =>
                /\ chosen.action.type = "shift"
                /\ <<chosen.action.dx, chosen.action.dy>> # <<0, 0>>

\* C16 witness: from the full window of the test, both counters at 4,
\* chooseBestAction has returned a shift.
C16_Witness ==
    /\ lastCall = "chooseBestAction"
    /\ state = fullState
    /\ \A i \in WindowCells(state) : state.board[i] # EMPTY
    /\ \A p \in Player : state.placementsByPlayer[p] = 4
    /\ chosen.status = "ok"
    /\ chosen.action.type = "shift"

-----------------------------------------------------------------------------
(* The pruned search beside the unpruned one: a caller runs minimax on a    *)
(* position, then the search with alpha-beta window and transposition       *)
(* table on the same arguments, repeatedly and with one shared table (as    *)
(* tests/minimax-bench.test.js does with its ttable)                        *)

\* the mid-game position of the benchmark: X on the top corners of the window,
\* O on the centre and the bottom-left corner, X to move
midGame ==
    applyAction(
        applyAction(
            applyAction(
                applyAction(createInitialState, PlaceAction(getActiveIndices(createInitialState)[1]), "X").state,
                PlaceAction(getActiveIndices(createInitialState)[5]), "O").state,
            PlaceAction(getActiveIndices(createInitialState)[3]), "X").state,
        PlaceAction(getActiveIndices(createInitialState)[7]), "O").state

SearchFixtures == Fixtures \cup { <<midGame, "X">> }

MaxSearches == 2

InitSearch ==
    /\ \E f \in SearchFixtures : state = f[1] /\ sideToMove = f[2]
    /\ history = {}
    /\ evaluations = << >>
    /\ stats = NoStats
    /\ callArgs = NoArgs
    /\ chosen = NoChoice
    /\ winnerResult = NULL
    /\ drawResult = FALSE
    /\ lastCall = "none"
    /\ baseline = NoBaseline
    /\ searched = << >>
    /\ ttable = EmptyTable
    /\ scoreResult = 0
    /\ pluginRegistry = BuiltInRegistry
    /\ registryResult = NoRegistryResult
    /\ frames = << >>
    /\ visitedKeys = {}
    /\ options = NoOptions
    /\ driver = NoDriver
    /\ turnHistory = << >>
    /\ published = << >>
    /\ episodeResult = NoEpisodeResult
    /\ keyResult = ""

\* minimax(state, sideToMove, aiPlayer, 0, maxDepth, new Set(), history, stats)
CallMinimax(aiPlayer, maxDepth) ==
    /\ lastCall = "none"
    /\ \E r \in {minimax(state, sideToMove, aiPlayer, 0, maxDepth, {}, history, "default")} :
           /\ r.error = "none"
           /\ baseline' = [ status |-> "ok", score |-> r.score, nodesVisited |-> r.nodesVisited,
                            aiPlayer |-> aiPlayer, maxDepth |-> maxDepth ]
    /\ lastCall' = "minimax"
    /\ UNCHANGED <<state, sideToMove, history, evaluations, stats, callArgs, chosen, winnerResult, drawResult, searched, ttable, scoreResult, registryVars, keyResult, driverVars, pathVars>>

\* the search on the arguments of the minimax call, with fresh stats, the full
\* window and the shared table
CallSearch ==
    /\ lastCall \in {"minimax", "search"}
    /\ Len(searched) < MaxSearches
    /\ \E r \in {search(state, sideToMove, baseline.aiPlayer, 0, baseline.maxDepth, {}, history,
                        SearchStats(0, 0, 0), "default", 0 - Infinity, Infinity, ttable)} :
           /\ r.ended
           /\ searched' = Append(searched, [score |-> r.score, action |-> r.action, stats |-> r.stats])
           /\ ttable' = r.ttable
    /\ lastCall' = "search"
    /\ UNCHANGED <<state, sideToMove, history, evaluations, stats, callArgs, chosen, winnerResult, drawResult, baseline, scoreResult, registryVars, keyResult, driverVars, pathVars>>

\* the defaults of depthLimit and count
DefaultDepthLimit == 6
DefaultCount == 3

\* getEngineEvaluations of the engine with pruning and table
CallGetEngineEvaluationsWithTable(depthLimit, count) ==
    /\ lastCall = "none"
    /\ \E r \in {getEngineEvaluationsWithTable(state, sideToMove, history, depthLimit, count, "default")} :
           /\ r.ended
           /\ evaluations' = r.evaluations
           /\ stats' = r.stats
    /\ callArgs' = [depthLimit |-> depthLimit, count |-> count]
    /\ lastCall' = "getEngineEvaluationsWithTable"
    /\ UNCHANGED <<state, sideToMove, history, chosen, winnerResult, drawResult, baseline, searched, ttable, scoreResult, registryVars, keyResult, driverVars, pathVars>>

\* the call of the benchmark: the opening, X to move, no history, the default
\* count and a depth limit up to the default
CallOpeningSearch(depthLimit) ==
    /\ state = createInitialState
    /\ sideToMove = FIRST_PLAYER
    /\ history = {}
    /\ CallGetEngineEvaluationsWithTable(depthLimit, DefaultCount)

NextSearch ==
    \/ \E a \in SeedActions(state, sideToMove) : SeedHistory(a)
    \/ RecordPosition
    \/ RecordEverySuccessor
    \/ \E p \in Player, d \in 1..MaxDepth : CallMinimax(p, d)
    \/ CallSearch
    \/ \E d \in 1..MaxDepth, k \in 0..MaxCount : CallGetEngineEvaluationsWithTable(d, k)
    \/ \E d \in (MaxDepth + 1)..DefaultDepthLimit : CallOpeningSearch(d)

SpecSearch == InitSearch /\ [][NextSearch]_vars

-----------------------------------------------------------------------------
(* The evaluation functions applied to positions                           *)

\* a position won by the owner of one line of the window, the other side
\* holding the first two window cells off that line
wonState(line, owner, ax, ay) ==
    LET corner == [createInitialState EXCEPT !.activeX = ax, !.activeY = ay]
        onLine == { toIndex(ay + line[k][1], ax + line[k][2]) : k \in 1..Len(line) }
        offLine == SelectSeq(getActiveIndices(corner), LAMBDA i : i \notin onLine)
        board == [i \in 0..(TOTAL_CELLS - 1) |->
                    IF i \in onLine THEN owner
                    ELSE IF i \in {offLine[1], offLine[2]} THEN getOpponent(owner)
                    ELSE EMPTY]
    IN  [corner EXCEPT !.board = board, !.placementsByPlayer = countPlacements(board)]

EvalStates ==
    { f[1] : f \in SearchFixtures }
    \cup { wonState(RELATIVE_LINES[l], owner, ax, ay) :
             l \in 1..Len(RELATIVE_LINES), owner \in Player, ax \in PatternCorners, ay \in PatternCorners }

MaxEvalDepth == 100

InitEval ==
    /\ state \in EvalStates
    /\ sideToMove = FIRST_PLAYER
    /\ history = {}
    /\ evaluations = << >>
    /\ stats = NoStats
    /\ callArgs = NoArgs
    /\ chosen = NoChoice
    /\ winnerResult = NULL
    /\ drawResult = FALSE
    /\ lastCall = "none"
    /\ baseline = NoBaseline
    /\ searched = << >>
    /\ ttable = EmptyTable
    /\ scoreResult = 0
    /\ pluginRegistry = BuiltInRegistry
    /\ registryResult = NoRegistryResult
    /\ frames = << >>
    /\ visitedKeys = {}
    /\ options = NoOptions
    /\ driver = NoDriver
    /\ turnHistory = << >>
    /\ published = << >>
    /\ episodeResult = NoEpisodeResult
    /\ keyResult = ""

\* evaluate(state, winner, aiPlayer, depth) of a plugin, with the winner the
\* search hands it
CallEvaluate(evaluate, aiPlayer, depth) ==
    /\ lastCall = "none"
    /\ scoreResult' = EvaluationFunction(evaluate, state, getWinner(state), aiPlayer, depth)
    /\ callArgs' = [evaluate |-> evaluate, winner |-> getWinner(state), aiPlayer |-> aiPlayer, depth |-> depth]
    /\ lastCall' = "evaluate"
    /\ UNCHANGED <<state, sideToMove, history, evaluations, stats, chosen, winnerResult, drawResult, baseline, searched, ttable, registryVars, keyResult, driverVars, pathVars>>

BuiltInPlugins == {"default", "positional"}

NextEval ==
    \E evaluate \in BuiltInPlugins, aiPlayer \in Player, depth \in 0..MaxEvalDepth :
        CallEvaluate(evaluate, aiPlayer, depth)

SpecEval == InitEval /\ [][NextEval]_vars

\* the depths at which a plugin's win and loss scores keep their sign
SupportedDepths(evaluate) == IF evaluate = "positional" THEN 0..99 ELSE 0..9

\* C20: for both built-in plugins, a win for the AI side scores 10 - depth
\* (default) or 100 - depth (positional) and a loss depth - 10 or depth - 100,
\* so that within the plugin's supported depths (below 10, below 100) a win
\* at a smaller depth scores strictly higher than one at any greater depth
\* and a loss at a smaller depth strictly lower
C20_DepthMonotone ==
    ( /\ lastCall = "evaluate"
      /\ callArgs.winner # NULL
      /\ callArgs.depth \in SupportedDepths(callArgs.evaluate) )
    => /\ scoreResult = IF callArgs.evaluate = "positional"
                        THEN (IF callArgs.winner = callArgs.aiPlayer
                              THEN 100 - callArgs.depth ELSE callArgs.depth - 100)
                        ELSE (IF callArgs.winner = callArgs.aiPlayer
                              THEN 10 - callArgs.depth ELSE callArgs.depth - 10)
       /\ \A d2 \in SupportedDepths(callArgs.evaluate) :
            d2 > callArgs.depth
            => IF callArgs.winner = callArgs.aiPlayer
               THEN scoreResult > EvaluationFunction(callArgs.evaluate, state, callArgs.winner,
                                                     callArgs.aiPlayer, d2)
               ELSE scoreResult < EvaluationFunction(callArgs.evaluate, state, callArgs.winner,
                                                     callArgs.aiPlayer, d2)

C20_Witness ==
    /\ lastCall = "evaluate"
    /\ callArgs.evaluate = "positional"
    /\ callArgs.winner = SECOND_PLAYER
    /\ callArgs.aiPlayer = FIRST_PLAYER
    /\ callArgs.depth = 98
    /\ scoreResult = 0 - 2

Magnitude(n) == IF n < 0 THEN 0 - n ELSE n

\* C21: for each built-in plugin and every state, the score returned for a
\* call without a winner (a draw or a non-terminal position) is strictly
\* smaller in magnitude than the score of a win or a loss at every supported
\* depth (default: below 10, positional: up to 99)
C21_NonTerminalBelowTerminal ==
    ( /\ lastCall = "evaluate"
      /\ callArgs.winner = NULL )
    => \A d \in SupportedDepths(callArgs.evaluate), w \in Player :
          Magnitude(scoreResult)
            < Magnitude(EvaluationFunction(callArgs.evaluate, state, w, callArgs.aiPlayer, d))

-----------------------------------------------------------------------------
(* The plugin registry under calls                                         *)

NameInputs == { JSString("sentinel-ext"), JSString("default"), JSString(""), JSNumber, JSUndefined }

EvaluateInputs == { JSFunction("sentinel"), JSFunction("other"), JSUndefined }

PluginInputs ==
    {JSNull} \cup { EvaluationPlugin(n, JSUndefined, e) : n \in NameInputs, e \in EvaluateInputs }

LookupInputs ==
    { JSUndefined, JSString(""), JSString("missing"), JSString("sentinel-ext"),
      JSString("default"), JSString("positional") }

InitRegistry == Init

CallRegisterEvaluationPlugin(plugin) ==
    /\ \E r \in {registerEvaluationPlugin(pluginRegistry, plugin)} :
          /\ pluginRegistry' = r.registry
          /\ registryResult' = [NoRegistryResult EXCEPT !.error = r.error]
    /\ callArgs' = [plugin |-> plugin]
    /\ lastCall' = "registerEvaluationPlugin"
    /\ UNCHANGED <<state, sideToMove, history, evaluations, stats, chosen, winnerResult, drawResult, baseline, searched, ttable, scoreResult, keyResult, driverVars, pathVars>>

CallGetEvaluationPlugin(name) ==
    /\ registryResult' = [NoRegistryResult EXCEPT !.plugin = getEvaluationPlugin(pluginRegistry, name)]
    /\ callArgs' = [name |-> name]
    /\ lastCall' = "getEvaluationPlugin"
    /\ UNCHANGED <<state, sideToMove, history, evaluations, stats, chosen, winnerResult, drawResult, baseline, searched, ttable, scoreResult, pluginRegistry, keyResult, driverVars, pathVars>>

CallListEvaluationPlugins ==
    /\ registryResult' = [NoRegistryResult EXCEPT !.listing = listEvaluationPlugins(pluginRegistry)]
    /\ callArgs' = NoArgs
    /\ lastCall' = "listEvaluationPlugins"
    /\ UNCHANGED <<state, sideToMove, history, evaluations, stats, chosen, winnerResult, drawResult, baseline, searched, ttable, scoreResult, pluginRegistry, keyResult, driverVars, pathVars>>

NextRegistry ==
    \/ \E plugin \in PluginInputs : CallRegisterEvaluationPlugin(plugin)
    \/ \E name \in LookupInputs : CallGetEvaluationPlugin(name)
    \/ CallListEvaluationPlugins

SpecRegistry == InitRegistry /\ [][NextRegistry]_vars

\* a plugin the registry is to refuse: none at all, a name that is not a
\* non-empty string, or an evaluate that cannot be called
RefusedPlugin(plugin) ==
    \/ plugin = JSNull
    \/ plugin.name.type # "string"
    \/ plugin.name = JSString("")
    \/ plugin.evaluate.type # "function"

ListedNames(registry) == { registry[k].name : k \in 1..Len(registry) }

C22_StateOfRegistry ==
    /\ lastCall = "registerEvaluationPlugin"
       => /\ RefusedPlugin(callArgs.plugin) <=> registryResult.error = "InvalidPlugin"
          /\ registryResult.error = "none"
             => /\ getEvaluationPlugin(pluginRegistry, callArgs.plugin.name) = callArgs.plugin
                /\ callArgs.plugin \in Range(listEvaluationPlugins(pluginRegistry))
    /\ ( /\ lastCall = "getEvaluationPlugin"
         /\ callArgs.name \notin (ListedNames(pluginRegistry) \ {JSUndefined, JSString("")}) )
       => registryResult.plugin = DEFAULT_EVALUATION_PLUGIN
    /\ lastCall = "listEvaluationPlugins"
       => registryResult.listing = pluginRegistry
    /\ {JSString("default"), JSString("positional")} \subseteq ListedNames(listEvaluationPlugins(pluginRegistry))

\* C22: after any sequence of registrations, (a) a registration of a plugin
\* with an empty or non-string name or a non-callable evaluate fails with
\* InvalidPlugin and leaves the registry as it was, (b) after a successful
\* registration of p the look-up of p's name returns p and the listing holds
\* it, (c) the look-up of a name that is missing or not registered returns
\* the built-in default plugin, (d) "default" and "positional" are always
\* listed
C22_Registry ==
    /\ []C22_StateOfRegistry
    /\ [][ (lastCall' = "registerEvaluationPlugin" /\ registryResult'.error = "InvalidPlugin")
           => pluginRegistry' = pluginRegistry ]_vars

C22_Witness ==
    /\ lastCall = "registerEvaluationPlugin"
    /\ registryResult.error = "InvalidPlugin"
    /\ callArgs.plugin # JSNull
    /\ callArgs.plugin.name = JSString("")
    /\ callArgs.plugin.evaluate.type = "function"
    /\ Len(pluginRegistry) = 3
    /\ getEvaluationPlugin(pluginRegistry, JSString("sentinel-ext")).evaluate = JSFunction("sentinel")

-----------------------------------------------------------------------------
(* Shifts and their inverses                                               *)

\* C23: in every state reached by play, for a player who has placed at least
\* two markers and every shift (dx, dy) getShiftActions lists, the shift is
\* applied, the shift (-dx, -dy) is listed and accepted in the state that
\* results, and applying it gives back the window corner, the board and the
\* placement counters of the state before
C23_ShiftInverse ==
    \A p \in Player :
        hasReachedMovementMinimum(state, p)
        => \A k \in 1..Len(getShiftActions(state)) :
             LET d == getShiftActions(state)[k]
                 there == applyAction(state, ShiftAction(d.dx, d.dy), p)
                 back == applyAction(there.state, ShiftAction(0 - d.dx, 0 - d.dy), p)
             IN  /\ there.error = "none"
                 /\ <<there.state.activeX, there.state.activeY>>
                      = <<state.activeX + d.dx, state.activeY + d.dy>>
                 /\ \E j \in 1..Len(getShiftActions(there.state)) :
                       /\ getShiftActions(there.state)[j].dx = 0 - d.dx
                       /\ getShiftActions(there.state)[j].dy = 0 - d.dy
                 /\ back.error = "none"
                 /\ back.state.activeX = state.activeX
                 /\ back.state.activeY = state.activeY
                 /\ back.state.board = state.board
                 /\ back.state.placementsByPlayer = state.placementsByPlayer

C23_Witness ==
    /\ hasReachedMovementMinimum(state, FIRST_PLAYER)
    /\ ~hasReachedMovementMinimum(state, SECOND_PLAYER)
    /\ state.activeX = 0
    /\ state.activeY = BOARD_SIZE - ACTIVE_SIZE
    /\ Len(getShiftActions(state)) = 3

-----------------------------------------------------------------------------
(* getStateKey applied to positions                                        *)

\* boards that differ in their first or their last cell
KeyBoards ==
    { [createInitialState.board EXCEPT ![i] = c] : i \in {0, TOTAL_CELLS - 1}, c \in Cell }

\* positions with every window corner and every pair of placement counters
KeyStates ==
    { [ board |-> b, activeX |-> ax, activeY |-> ay,
        placementsByPlayer |-> [p \in Player |-> IF p = FIRST_PLAYER THEN px ELSE po] ] :
        b \in KeyBoards,
        ax \in 0..(BOARD_SIZE - ACTIVE_SIZE), ay \in 0..(BOARD_SIZE - ACTIVE_SIZE),
        px \in 0..MAX_PLACEMENTS_PER_PLAYER, po \in 0..MAX_PLACEMENTS_PER_PLAYER }

KeyInputs == KeyStates \X Player

InitKey ==
    /\ \E x \in KeyInputs : state = x[1] /\ sideToMove = x[2]
    /\ history = {}
    /\ evaluations = << >>
    /\ stats = NoStats
    /\ callArgs = NoArgs
    /\ chosen = NoChoice
    /\ winnerResult = NULL
    /\ drawResult = FALSE
    /\ lastCall = "none"
    /\ baseline = NoBaseline
    /\ searched = << >>
    /\ ttable = EmptyTable
    /\ scoreResult = 0
    /\ pluginRegistry = BuiltInRegistry
    /\ registryResult = NoRegistryResult
    /\ frames = << >>
    /\ visitedKeys = {}
    /\ options = NoOptions
    /\ driver = NoDriver
    /\ turnHistory = << >>
    /\ published = << >>
    /\ episodeResult = NoEpisodeResult
    /\ keyResult = ""

CallGetStateKey ==
    /\ lastCall = "none"
    /\ keyResult' = getStateKey(state, sideToMove)
    /\ lastCall' = "getStateKey"
    /\ UNCHANGED <<state, sideToMove, history, evaluations, stats, callArgs, chosen, winnerResult, drawResult, baseline, searched, ttable, scoreResult, registryVars, driverVars, pathVars>>

NextKey == CallGetStateKey

SpecKey == InitKey /\ [][NextKey]_vars

\* the key of every position of KeyInputs
KeyTable == [x \in KeyInputs |-> getStateKey(x[1], x[2])]

\* C24: for states with counters in 0..4 and window corners in 0..2 and any
\* sides, two keys are equal exactly when the boards are equal cell by cell,
\* the window corners are equal, the sides are equal and both placement
\* counters are equal
C24_KeyInjective ==
    lastCall = "getStateKey"
    => \A x \in KeyInputs :
          (KeyTable[x] = keyResult)
          <=> /\ x[2] = sideToMove
              /\ x[1].activeX = state.activeX
              /\ x[1].activeY = state.activeY
              /\ x[1].placementsByPlayer[FIRST_PLAYER] = state.placementsByPlayer[FIRST_PLAYER]
              /\ x[1].placementsByPlayer[SECOND_PLAYER] = state.placementsByPlayer[SECOND_PLAYER]
              /\ \A i \in 0..(TOTAL_CELLS - 1) : x[1].board[i] = state.board[i]

C24_Witness ==
    /\ lastCall = "getStateKey"
    /\ keyResult = "                        O|2,0|O|4,3"

-----------------------------------------------------------------------------
(* The drivers of cli.ts: the labels of actions and the progressive        *)
(* engine report of one AI turn                                            *)

rowLabels == << "A", "B", "C", "D", "E" >>

\* directionLabels[`${dx},${dy}`], undefined for a key the table lacks
directionLabels(dx, dy) ==
    CASE dx = -1 /\ dy = 0 -> "left"
      [] dx = 1 /\ dy = 0 -> "right"
      [] dx = 0 /\ dy = -1 -> "up"
      [] dx = 0 /\ dy = 1 -> "down"
      [] dx = -1 /\ dy = -1 -> "up-left"
      [] dx = 1 /\ dy = -1 -> "up-right"
      [] dx = -1 /\ dy = 1 -> "down-left"
      [] dx = 1 /\ dy = 1 -> "down-right"
      [] OTHER -> UNDEFINED

formatSquare(index) ==
    rowLabels[(index \div BOARD_SIZE) + 1] \o ToString((index % BOARD_SIZE) + 1)

\* the arrow of the source (U+2192) is written "->"
describeAction(action) ==
    IF action.type = "place" THEN "place " \o formatSquare(action.index)
    ELSE IF action.type = "move"
    THEN "move " \o formatSquare(action.from) \o " -> " \o formatSquare(action.to)
    ELSE "shift " \o (IF directionLabels(action.dx, action.dy) # UNDEFINED
                      THEN directionLabels(action.dx, action.dy)
                      ELSE "dx " \o ToString(action.dx) \o ", dy " \o ToString(action.dy))

\* pv.map(describeAction).join(" -> ") from the k-th action on
RECURSIVE joinLabels(_, _)
joinLabels(pv, k) ==
    IF k = Len(pv) THEN describeAction(pv[k])
    ELSE describeAction(pv[k]) \o " -> " \o joinLabels(pv, k + 1)

formatPrincipalVariation(pv) ==
    IF Len(pv) = 0 THEN "<none>" ELSE joinLabels(pv, 1)

\* the plugin a side plays with (evalXPlugin, evalOPlugin) and the name its
\* evaluate function goes by in EvaluationFunction
evalPluginOf(opts, player) ==
    getEvaluationPlugin(BuiltInRegistry,
                        JSString(IF player = "X" THEN opts.evalX ELSE opts.evalO))

evaluateOf(plugin) ==
    IF plugin.evaluate = JSFunction("positionalEvaluate") THEN "positional" ELSE "default"

\* the EvalWidgetData built from what one getEngineEvaluations call returned;
\* the stats of minimax.ts carry nodesVisited alone, so reading cacheHits and
\* cutoffs off them yields undefined
evalWidgetData(r, depth, opts, player) ==
    [ evaluations |-> [k \in 1..Len(r.evaluations) |->
                          [ score |-> r.evaluations[k].score,
                            pvText |-> formatPrincipalVariation(r.evaluations[k].pv) ]],
      depth |-> depth,
      maxDepth |-> opts.engineDepth,
      nodesVisited |-> r.stats.nodesVisited,
      cacheHits |-> UNDEFINED,
      cutoffs |-> UNDEFINED,
      evalName |-> evalPluginOf(opts, player).name.value ]

\* the engine call of an iteration that searches to engineDepth every time
progressiveSearch_fullDepth(s, player, hist, opts, depth) ==
    getEngineEvaluations(s, player, hist, opts.engineDepth, opts.multiPvCount,
                         evaluateOf(evalPluginOf(opts, player)))

\* the engine call of the iteration for depth
progressiveSearch(s, player, hist, opts, depth) ==
    getEngineEvaluations(s, player, hist, depth, opts.multiPvCount,
                         evaluateOf(evalPluginOf(opts, player)))

\* the test of the for-loop with depth: the next await of yieldToEventLoop, or
\* the return
loopOrReturn(drv, opts, depth) ==
    IF depth <= opts.engineDepth
    THEN [drv EXCEPT !.pc = "yieldToEventLoop", !.depth = depth, !.yields = @ + 1]
    ELSE [drv EXCEPT !.pc = "returned", !.depth = depth]

\* options of a run of cli.ts
CliOptions(engineDepth, multiPvCount, evalX, evalO) ==
    [ name |-> "cli", engineDepth |-> engineDepth, multiPvCount |-> multiPvCount,
      evalX |-> evalX, evalO |-> evalO ]

ProgressiveDriver ==
    [ name |-> "renderProgressiveEval", pc |-> "called", depth |-> 0, yields |-> 0, searches |-> 0 ]

\* an AI turn is about to report: a position of play, the positions seen so
\* far (the current one among them) and the flags of the run
InitProgressive ==
    /\ \E f \in Fixtures : state = f[1] /\ sideToMove = f[2]
    /\ history = {getStateKey(state, sideToMove)}
    /\ evaluations = << >>
    /\ stats = NoStats
    /\ callArgs = NoArgs
    /\ chosen = NoChoice
    /\ winnerResult = NULL
    /\ drawResult = FALSE
    /\ lastCall = "none"
    /\ baseline = NoBaseline
    /\ searched = << >>
    /\ ttable = EmptyTable
    /\ scoreResult = 0
    /\ pluginRegistry = BuiltInRegistry
    /\ registryResult = NoRegistryResult
    /\ frames = << >>
    /\ visitedKeys = {}
    /\ keyResult = ""
    /\ \E d \in 0..MaxDepth, k \in 0..MaxCount, e \in BuiltInPlugins :
           options = CliOptions(d, k, e, e)
    /\ driver = ProgressiveDriver
    /\ turnHistory = << >>
    /\ published = << >>
    /\ episodeResult = NoEpisodeResult

\* renderProgressiveEval from its call to the first await, or to its return
CallRenderProgressiveEval ==
    /\ driver.pc = "called"
    /\ driver' = IF options.multiPvCount <= 0
                 THEN [driver EXCEPT !.pc = "returned"]
                 ELSE loopOrReturn(driver, options, 1)
    /\ UNCHANGED <<state, sideToMove, history, evaluations, stats, callArgs, chosen, winnerResult, drawResult, lastCall, baseline, searched, ttable, scoreResult, registryVars, keyResult, options, turnHistory, published, episodeResult, pathVars>>

\* the event loop resumes the function: the search of this depth, its widget
\* logged, depth++, and on to the next await or the return
ResumeRenderProgressiveEval ==
    /\ driver.pc = "yieldToEventLoop"
    /\ \E r \in {progressiveSearch(state, sideToMove, history, options, driver.depth)} :
           IF r.error # "none"
           THEN /\ driver' = [driver EXCEPT !.pc = "thrown", !.searches = @ + 1]
                /\ UNCHANGED <<evaluations, stats, published, pathVars>>
           ELSE /\ evaluations' = r.evaluations
                /\ stats' = r.stats
                /\ published' = Append(published,
                                       evalWidgetData(r, driver.depth, options, sideToMove))
                /\ driver' = loopOrReturn([driver EXCEPT !.searches = @ + 1],
                                          options, driver.depth + 1)
    /\ UNCHANGED <<state, sideToMove, history, callArgs, chosen, winnerResult, drawResult, lastCall, baseline, searched, ttable, scoreResult, registryVars, keyResult, options, turnHistory, episodeResult, pathVars>>

NextProgressive ==
    \/ CallRenderProgressiveEval
    \/ ResumeRenderProgressiveEval

SpecProgressive == InitProgressive /\ [][NextProgressive]_vars

\* the nodes a search of its own, from fresh counters, visits at the depth
FreshNodes(depth) ==
    getEngineEvaluations(state, sideToMove, history, depth, options.multiPvCount,
                         evaluateOf(evalPluginOf(options, sideToMove))).stats.nodesVisited

\* what has been logged so far: the widgets of depths 1, 2, ... in that order,
\* one per search, each with the node count of a search of that depth alone
C25_Published ==
    /\ Len(published) = driver.searches
    /\ \A d \in 1..Len(published) :
           /\ published[d].depth = d
           /\ published[d].maxDepth = options.engineDepth
           /\ published[d].nodesVisited = FreshNodes(d)
    /\ driver.pc = "yieldToEventLoop" =>
           /\ driver.yields = driver.searches + 1
           /\ driver.depth = driver.searches + 1
    /\ driver.pc = "returned" =>
           /\ driver.yields = driver.searches
           /\ driver.searches = (IF options.multiPvCount > 0 THEN options.engineDepth ELSE 0)

\* C25: with engine reports enabled (multiPvCount > 0) one AI turn runs one
\* search per depth 1, 2, ..., engineDepth in increasing order; each search
\* starts only after a yield to the event loop and after the widgets of all
\* smaller depths have been logged, and logs its own widget, whose node count
\* is that of a search of this depth alone; with reports disabled nothing is
\* searched or logged.
C25_IterativeDeepening ==
    /\ []C25_Published
    /\ [][driver'.searches # driver.searches =>
            /\ driver.pc = "yieldToEventLoop"
            /\ driver.yields = driver.searches + 1
            /\ driver'.searches = driver.searches + 1
            /\ Len(published) = driver.searches
            /\ Len(published') = driver'.searches
            /\ published'[driver'.searches].depth = driver.searches + 1
            /\ driver'.searches <= options.engineDepth]_vars

\* the driver has returned after the searches of depth 1 and 2, the second of
\* which visited more nodes than the first
C25_Witness ==
    /\ driver.pc = "returned"
    /\ options.engineDepth >= 2
    /\ Len(published) = options.engineDepth
    /\ published[2].nodesVisited > published[1].nodesVisited
    /\ published[1].nodesVisited > 0

-----------------------------------------------------------------------------
(* The matches: playHumanMatch and playSelfMatch of cli.ts and             *)
(* runSelfPlayEpisode of learning.ts.  A turn is one step.                 *)

\* history.add(getStateKey(state, player))
addStateToHistory(hist, s, player) == hist \cup {getStateKey(s, player)}

ActionMenuEntry(s, action, player, hist) ==
    [ action |-> action,
      label |-> describeAction(action),
      repeats |-> getNextStateKey(s, action, player) \in hist,
      nextState |-> applyAction(s, action, player).state,
      nextPlayer |-> getOpponent(player),
      nextStateKey |-> getNextStateKey(s, action, player) ]

buildActionMenu(s, player, hist) ==
    LET acts == getAvailableActions(s, player)
    IN  [k \in 1..Len(acts) |-> ActionMenuEntry(s, acts[k], player, hist)]

\* entries.filter(e => !e.repeats) of selectMove
availableEntries(entries) == SelectSeq(entries, LAMBDA e : ~e.repeats)

SelfPlayTurn(stateBefore, player, action) ==
    [stateBefore |-> stateBefore, player |-> player, action |-> action]

\* the assignments that commit a turn and leave the side to move unchanged
commitTurn_sameSide(s, player, hist, turns, action) ==
    [ state |-> applyAction(s, action, player).state,
      currentPlayer |-> player,
      history |-> addStateToHistory(hist, applyAction(s, action, player).state, player),
      turns |-> Append(turns, SelfPlayTurn(s, player, action)) ]

\* the assignments that commit a turn: the turn recorded, the action applied,
\* the side to move swapped, the key of the new position added to the history
commitTurn(s, player, hist, turns, action) ==
    [ state |-> applyAction(s, action, player).state,
      currentPlayer |-> getOpponent(player),
      history |-> addStateToHistory(hist, applyAction(s, action, player).state,
                                    getOpponent(player)),
      turns |-> Append(turns, SelfPlayTurn(s, player, action)) ]

\* the loop test of runSelfPlayEpisode that admits one turn more
episodeContinues_oneMore(turn, maxTurns) == turn <= maxTurns

\* turn < maxTurns, the test of the for-loop of runSelfPlayEpisode
episodeContinues(turn, maxTurns) == turn < maxTurns

SelfPlayOptions(depthLimit, maxTurns, evalX, evalO) ==
    [ name |-> "learning", depthLimit |-> depthLimit, maxTurns |-> maxTurns,
      evalX |-> evalX, evalO |-> evalO ]

\* terminatedByMaxTurns is FALSE for a result without the field
SelfPlayEpisodeResult(winner, turnCount, turns, terminatedByMaxTurns) ==
    [ status |-> "returned", winner |-> winner, turnCount |-> turnCount,
      history |-> turns, terminatedByMaxTurns |-> terminatedByMaxTurns ]

\* the tally of runSelfPlayTraining an episode result is counted under
winnerCount(result) ==
    IF result.winner = "X" THEN "X"
    ELSE IF result.winner = "O" THEN "O"
    ELSE IF result.terminatedByMaxTurns THEN "timeout"
    ELSE "draw"

\* match counts the matches the run has started
MatchDriver(name, humanPlayer, match) ==
    [ name |-> name, pc |-> "turn", humanPlayer |-> humanPlayer, turn |-> 0, match |-> match ]

\* the depth limit the tests of the episodes run the engine with
TestDepthLimit == 1

\* the turns a match of cli.ts is followed for and the turn limits given to
\* an episode, and the matches one run of cli.ts is followed for
MaxTurns == 6
MaxMatches == 2

\* the startup choice: parseStartupChoice yields X, O or SELF_PLAY
StartupChoices == Player \cup {"SELF_PLAY"}

startMatch(choice, match) ==
    IF choice = "SELF_PLAY" THEN MatchDriver("playSelfMatch", NULL, match)
    ELSE MatchDriver("playHumanMatch", choice, match)

InitMatch ==
    /\ state = createInitialState
    /\ sideToMove = FIRST_PLAYER
    /\ history = addStateToHistory({}, createInitialState, FIRST_PLAYER)
    /\ evaluations = << >>
    /\ stats = NoStats
    /\ callArgs = NoArgs
    /\ chosen = NoChoice
    /\ winnerResult = NULL
    /\ drawResult = FALSE
    /\ lastCall = "none"
    /\ baseline = NoBaseline
    /\ searched = << >>
    /\ ttable = EmptyTable
    /\ scoreResult = 0
    /\ pluginRegistry = BuiltInRegistry
    /\ registryResult = NoRegistryResult
    /\ frames = << >>
    /\ visitedKeys = {}
    /\ keyResult = ""
    /\ \/ \E e \in BuiltInPlugins, c \in StartupChoices :
              /\ options = CliOptions(TestDepthLimit, DefaultCount, e, e)
              /\ driver = startMatch(c, 1)
       \/ \E n \in 0..MaxTurns, e \in BuiltInPlugins :
              /\ options = SelfPlayOptions(TestDepthLimit, n, e, e)
              /\ driver = MatchDriver("runSelfPlayEpisode", NULL, 1)
    /\ turnHistory = << >>
    /\ published = << >>
    /\ episodeResult = NoEpisodeResult

\* the test of the loops of cli.ts and learning.ts on which they stop: a
\* winner or a draw
terminal_drawOnly(s) == isDraw(s)

terminal(s) == getWinner(s) # NULL \/ isDraw(s)

\* the actions a person is taken to select: those on the admitted cells, and
\* every shift
Selectable(action) ==
    CASE action.type = "place" -> action.index \in InputCells
      [] action.type = "move" -> action.from \in InputCells /\ action.to \in InputCells
      [] OTHER -> TRUE

\* the state, side, history set and turns a committed turn leaves
Committed(c) ==
    /\ state' = c.state
    /\ sideToMove' = c.currentPlayer
    /\ history' = c.history
    /\ turnHistory' = c.turns

\* one AI move of cli.ts (executeAiTurn, and the body of the loop of
\* playSelfMatch): chooseBestAction at engineDepth with the side's plugin,
\* applied and committed; a throw of chooseBestAction ends the run in main
AiCommits ==
    \E r \in {chooseBestAction(state, sideToMove, history, options.engineDepth,
                               evaluateOf(evalPluginOf(options, sideToMove)))} :
        IF r.status = "ok"
        THEN /\ Committed(commitTurn(state, sideToMove, history, turnHistory, r.action))
             /\ driver' = [driver EXCEPT !.turn = @ + 1]
        ELSE /\ driver' = [driver EXCEPT !.pc = "thrown"]
             /\ UNCHANGED <<state, sideToMove, history, turnHistory, pathVars>>

\* playHumanMatch, the person's turn: an entry of the menu that repeats no
\* position is selected and committed
HumanSelectsMove(action) ==
    /\ driver.name = "playHumanMatch" /\ driver.pc = "turn"
    /\ Len(turnHistory) < MaxTurns
    /\ ~terminal(state)
    /\ sideToMove = driver.humanPlayer
    /\ Selectable(action)
    /\ \E e \in Range(availableEntries(buildActionMenu(state, sideToMove, history))) :
           /\ e.action = action
           /\ Committed(commitTurn(state, sideToMove, history, turnHistory, e.action))
    /\ driver' = [driver EXCEPT !.turn = @ + 1]
    /\ UNCHANGED <<evaluations, stats, callArgs, chosen, winnerResult, drawResult, lastCall, baseline, searched, ttable, scoreResult, registryVars, keyResult, options, published, episodeResult, pathVars>>

\* playHumanMatch, the person's turn handed to the AI ("ai", "auto")
HumanHandsOff ==
    /\ driver.name = "playHumanMatch" /\ driver.pc = "turn"
    /\ Len(turnHistory) < MaxTurns
    /\ ~terminal(state)
    /\ sideToMove = driver.humanPlayer
    /\ AiCommits
    /\ UNCHANGED <<evaluations, stats, callArgs, chosen, winnerResult, drawResult, lastCall, baseline, searched, ttable, scoreResult, registryVars, keyResult, options, published, episodeResult, pathVars>>

\* playHumanMatch, the AI's turn
AiTurn ==
    /\ driver.name = "playHumanMatch" /\ driver.pc = "turn"
    /\ Len(turnHistory) < MaxTurns
    /\ ~terminal(state)
    /\ sideToMove # driver.humanPlayer
    /\ AiCommits
    /\ UNCHANGED <<evaluations, stats, callArgs, chosen, winnerResult, drawResult, lastCall, baseline, searched, ttable, scoreResult, registryVars, keyResult, options, published, episodeResult, pathVars>>

\* playSelfMatch, one pass of its loop
SelfMatchTurn ==
    /\ driver.name = "playSelfMatch" /\ driver.pc = "turn"
    /\ Len(turnHistory) < MaxTurns
    /\ ~terminal(state)
    /\ AiCommits
    /\ UNCHANGED <<evaluations, stats, callArgs, chosen, winnerResult, drawResult, lastCall, baseline, searched, ttable, scoreResult, registryVars, keyResult, options, published, episodeResult, pathVars>>

\* the break out of the loop of either match of cli.ts on a winner or a draw
MatchEnds ==
    /\ driver.name \in {"playHumanMatch", "playSelfMatch"} /\ driver.pc = "turn"
    /\ terminal(state)
    /\ driver' = [driver EXCEPT !.pc = "ended"]
    /\ UNCHANGED <<state, sideToMove, history, evaluations, stats, callArgs, chosen, winnerResult, drawResult, lastCall, baseline, searched, ttable, scoreResult, registryVars, keyResult, options, turnHistory, published, episodeResult, pathVars>>

\* runInteractiveMatch called again: after "Play again?" at the end of a
\* match with a person, or on "restart" at the person's turn
RunInteractiveMatch(choice) ==
    /\ driver.name = "playHumanMatch"
    /\ \/ driver.pc = "ended"
       \/ driver.pc = "turn" /\ ~terminal(state) /\ sideToMove = driver.humanPlayer
    /\ driver.match < MaxMatches
    /\ state' = createInitialState
    /\ sideToMove' = FIRST_PLAYER
    /\ history' = addStateToHistory({}, createInitialState, FIRST_PLAYER)
    /\ turnHistory' = << >>
    /\ driver' = startMatch(choice, driver.match + 1)
    /\ UNCHANGED <<evaluations, stats, callArgs, chosen, winnerResult, drawResult, lastCall, baseline, searched, ttable, scoreResult, registryVars, keyResult, options, published, episodeResult, pathVars>>

\* runSelfPlayEpisode, one pass of its loop: the return on a winner or a
\* draw, or the turn chosen by chooseBestAction and committed
EpisodeTurn ==
    /\ driver.name = "runSelfPlayEpisode" /\ driver.pc = "turn"
    /\ episodeContinues(driver.turn, options.maxTurns)
    /\ IF terminal(state)
       THEN /\ episodeResult' = SelfPlayEpisodeResult(getWinner(state), driver.turn,
                                                      turnHistory, FALSE)
            /\ driver' = [driver EXCEPT !.pc = "returned"]
            /\ UNCHANGED <<state, sideToMove, history, turnHistory, pathVars>>
       ELSE \E r \in {chooseBestAction(state, sideToMove, history, options.depthLimit,
                                       evaluateOf(evalPluginOf(options, sideToMove)))} :
                IF r.status = "ok"
                THEN /\ Committed(commitTurn(state, sideToMove, history, turnHistory, r.action))
                     /\ driver' = [driver EXCEPT !.turn = @ + 1]
                     /\ UNCHANGED episodeResult
                ELSE /\ driver' = [driver EXCEPT !.pc = "thrown"]
                     /\ UNCHANGED <<state, sideToMove, history, turnHistory, episodeResult, pathVars>>
    /\ UNCHANGED <<evaluations, stats, callArgs, chosen, winnerResult, drawResult, lastCall, baseline, searched, ttable, scoreResult, registryVars, keyResult, options, published, pathVars>>

\* runSelfPlayEpisode past its loop: the return with terminatedByMaxTurns
EpisodeTimesOut ==
    /\ driver.name = "runSelfPlayEpisode" /\ driver.pc = "turn"
    /\ ~episodeContinues(driver.turn, options.maxTurns)
    /\ episodeResult' = SelfPlayEpisodeResult(getWinner(state), options.maxTurns,
                                              turnHistory, TRUE)
    /\ driver' = [driver EXCEPT !.pc = "returned"]
    /\ UNCHANGED <<state, sideToMove, history, evaluations, stats, callArgs, chosen, winnerResult, drawResult, lastCall, baseline, searched, ttable, scoreResult, registryVars, keyResult, options, turnHistory, published, pathVars>>

NextMatch ==
    \/ \E a \in Range(getAvailableActions(state, sideToMove)) : HumanSelectsMove(a)
    \/ HumanHandsOff
    \/ AiTurn
    \/ SelfMatchTurn
    \/ MatchEnds
    \/ \E c \in StartupChoices : RunInteractiveMatch(c)
    \/ EpisodeTurn
    \/ EpisodeTimesOut

SpecMatch == InitMatch /\ [][NextMatch]_vars

\* a step of a running episode, told by what it does to the driver: a turn
\* committed, a return, or a throw
EpisodeProgress ==
    /\ driver.name = "runSelfPlayEpisode" /\ driver.pc = "turn"
    /\ driver' \in { [driver EXCEPT !.turn = @ + 1], [driver EXCEPT !.pc = "returned"],
                     [driver EXCEPT !.pc = "thrown"] }

\* runSelfPlayEpisode is synchronous: once called, its loop keeps running
SpecMatchFair == SpecMatch /\ WF_driver(EpisodeProgress)

EpisodeRunning == driver.name = "runSelfPlayEpisode"

\* an episode with turn limit N never holds more than N committed turns, and
\* what it returns has turnCount <= N, as many recorded turns as turnCount,
\* and terminatedByMaxTurns exactly when N turns were committed (no pass of
\* the loop having found a winner or a draw before its turn); with N = 1 and
\* depthLimit = 1 it returns after one turn and is tallied as a timeout
C26_StateOfEpisode ==
    EpisodeRunning =>
        /\ Len(turnHistory) = driver.turn
        /\ driver.turn <= options.maxTurns
        /\ \A k \in 1..Len(turnHistory) : ~terminal(turnHistory[k].stateBefore)
        /\ driver.pc = "returned" =>
              /\ episodeResult.turnCount <= options.maxTurns
              /\ episodeResult.turnCount = Len(turnHistory)
              /\ episodeResult.history = turnHistory
              /\ Len(episodeResult.history) = episodeResult.turnCount
              /\ episodeResult.terminatedByMaxTurns <=> (Len(turnHistory) = options.maxTurns)
              /\ ~episodeResult.terminatedByMaxTurns => terminal(state)
              /\ (options.maxTurns = 1 /\ options.depthLimit = 1) =>
                     /\ episodeResult.turnCount = 1
                     /\ winnerCount(episodeResult) = "timeout"

\* C26: runSelfPlayEpisode with maxTurns = N returns, having committed at
\* most N actions, with turnCount <= N and a history as long as turnCount, and
\* reports terminatedByMaxTurns when N actions were committed without a
\* terminal state found at the start of a turn; with maxTurns = 1 and
\* depthLimit = 1 that is after one turn, counted as a timeout.
C26_TurnLimit ==
    /\ []C26_StateOfEpisode
    /\ EpisodeRunning ~> (driver.pc = "returned")

\* the episode of the test: one turn allowed, depth one, returned as a timeout
C26_Witness ==
    /\ EpisodeRunning
    /\ driver.pc = "returned"
    /\ options.maxTurns = 1 /\ options.depthLimit = 1
    /\ Len(episodeResult.history) = 1
    /\ episodeResult.terminatedByMaxTurns
    /\ winnerCount(episodeResult) = "timeout"

\* an episode that used up a turn limit of four
C26_WitnessLong ==
    /\ EpisodeRunning
    /\ driver.pc = "returned"
    /\ episodeResult.turnCount = 4
    /\ episodeResult.terminatedByMaxTurns

\* the positions a match has committed, in order: the position before each
\* turn, then the current one
Positions ==
    [k \in 1..(Len(turnHistory) + 1) |->
        IF k <= Len(turnHistory)
        THEN <<turnHistory[k].stateBefore, turnHistory[k].player>>
        ELSE <<state, sideToMove>>]

MatchRunning == driver.pc \in {"turn", "ended", "returned", "thrown"} /\ driver.name # "renderProgressiveEval"

\* C27: in every match of the drivers (with a person, hand-off turns
\* included, self-play of cli.ts, runSelfPlayEpisode) the committed positions
\* (state and side to move), the initial one first, are pairwise different,
\* and the history set holds exactly their keys, one more per committed move.
C27_NoRepeatedPosition ==
    MatchRunning =>
        /\ \A i, j \in 1..Len(Positions) : Positions[i] = Positions[j] => i = j
        /\ history = { getStateKey(Positions[k][1], Positions[k][2]) : k \in 1..Len(Positions) }
        /\ Cardinality(history) = Len(turnHistory) + 1

\* the side that made the last turn had an action leading back to a position
\* of the match, and committed another
C27_Witness ==
    /\ MatchRunning
    /\ Len(turnHistory) >= 1
    /\ \E a \in Range(getAvailableActions(turnHistory[Len(turnHistory)].stateBefore,
                                           turnHistory[Len(turnHistory)].player)) :
           /\ getNextStateKey(turnHistory[Len(turnHistory)].stateBefore, a,
                              turnHistory[Len(turnHistory)].player)
                  \in history \ {getStateKey(state, sideToMove)}
           /\ a # turnHistory[Len(turnHistory)].action

CountBy(player) == Cardinality({k \in 1..Len(turnHistory) : turnHistory[k].player = player})

\* the sides of the turns so far alternate from X on, each turn was applied to
\* the position the turn before it left, for the side then to move
C28_StateOfOrder ==
    MatchRunning =>
        /\ Positions[1] = <<createInitialState, FIRST_PLAYER>>
        /\ \A k \in 1..Len(turnHistory) :
              /\ turnHistory[k].player = (IF k % 2 = 1 THEN FIRST_PLAYER ELSE SECOND_PLAYER)
              /\ Positions[k + 1][1] =
                     applyAction(turnHistory[k].stateBefore, turnHistory[k].action,
                                 turnHistory[k].player).state
              /\ Positions[k + 1][2] = getOpponent(turnHistory[k].player)
        /\ CountBy(FIRST_PLAYER) - CountBy(SECOND_PLAYER) \in {0, 1}

\* C28: every match starts from the initial state with X to move, the side
\* to move changes with every committed action, whoever made it, each action
\* is applied for the side whose turn it is, and X has made as many actions
\* as O or one more.
C28_PlayerOrder ==
    /\ []C28_StateOfOrder
    /\ [][/\ driver'.match # driver.match =>
                /\ state' = createInitialState
                /\ sideToMove' = FIRST_PLAYER
                /\ turnHistory' = << >>
          /\ (driver'.match = driver.match /\ turnHistory' # turnHistory) =>
                /\ turnHistory' = Append(turnHistory,
                                         SelfPlayTurn(state, sideToMove,
                                                      turnHistory'[Len(turnHistory')].action))
                /\ sideToMove' = getOpponent(sideToMove)]_vars

\* a second match, with a person playing O, five turns in with O to move
C28_Witness ==
    /\ driver.name = "playHumanMatch"
    /\ driver.humanPlayer = SECOND_PLAYER
    /\ driver.match = 2
    /\ Len(turnHistory) = 5
    /\ sideToMove = SECOND_PLAYER
    /\ CountBy(FIRST_PLAYER) = 3 /\ CountBy(SECOND_PLAYER) = 2

-----------------------------------------------------------------------------
(* minimax called at a single node, as the tests of its returns do         *)

\* the visited sets a call is given: empty, holding the key of the node, or
\* holding the key of another position
VisitedInputs(s, player) ==
    { {}, {getStateKey(s, player)}, {getStateKey(fullState, getOpponent(player))},
      {getStateKey(s, player), getStateKey(fullState, getOpponent(player))} }

InitNode ==
    /\ state \in EvalStates
    /\ sideToMove \in Player
    /\ history = {}
    /\ evaluations = << >>
    /\ stats = NoStats
    /\ callArgs = NoArgs
    /\ chosen = NoChoice
    /\ winnerResult = NULL
    /\ drawResult = FALSE
    /\ lastCall = "none"
    /\ baseline = NoBaseline
    /\ searched = << >>
    /\ ttable = EmptyTable
    /\ scoreResult = 0
    /\ pluginRegistry = BuiltInRegistry
    /\ registryResult = NoRegistryResult
    /\ frames = << >>
    /\ visitedKeys = {}
    /\ keyResult = ""
    /\ options = NoOptions
    /\ driver = NoDriver
    /\ turnHistory = << >>
    /\ published = << >>
    /\ episodeResult = NoEpisodeResult

\* minimax(state, sideToMove, aiPlayer, depth, maxDepth, visited, history,
\* stats, evaluate) with stats = { nodesVisited: 0 }
CallMinimaxAtNode(aiPlayer, depth, maxDepth, visited, evaluate) ==
    /\ lastCall = "none"
    /\ \E r \in {minimax(state, sideToMove, aiPlayer, depth, maxDepth, visited, history, evaluate)} :
           /\ r.error = "none"
           /\ baseline' = [ status |-> "ok", score |-> r.score, action |-> r.action, pv |-> r.pv,
                            nodesVisited |-> r.nodesVisited, visitedAfter |-> r.visited,
                            aiPlayer |-> aiPlayer, depth |-> depth, maxDepth |-> maxDepth,
                            visited |-> visited, evaluate |-> evaluate ]
    /\ lastCall' = "minimax"
    /\ UNCHANGED <<state, sideToMove, history, evaluations, stats, callArgs, chosen, winnerResult, drawResult, searched, ttable, scoreResult, registryVars, keyResult, driverVars, pathVars>>

NextNode ==
    \E aiPlayer \in Player, depth \in 0..(MaxDepth + 1), maxDepth \in 0..MaxDepth,
       visited \in VisitedInputs(state, sideToMove), evaluate \in BuiltInPlugins :
        CallMinimaxAtNode(aiPlayer, depth, maxDepth, visited, evaluate)

SpecNode == InitNode /\ [][NextNode]_vars

\* the call returned at once: no action, an empty line, the one node counted
\* and the visited set as it was given
ReturnedAtOnce ==
    /\ baseline.action = NoAction
    /\ baseline.pv = << >>
    /\ baseline.nodesVisited = 1
    /\ baseline.visitedAfter = baseline.visited

C29_WitnessLimit ==
    /\ lastCall = "minimax"
    /\ getWinner(state) = NULL
    /\ baseline.depth = baseline.maxDepth /\ baseline.depth > 0
    /\ baseline.evaluate = "positional"
    /\ baseline.score # 0

-----------------------------------------------------------------------------
(* Frame of applyAction, checked under Spec                                *)

\* the cells on which two boards differ
ChangedCells(before, after) == { c \in 0..(TOTAL_CELLS - 1) : before[c] # after[c] }

\* the successor differs from s as a placement of player on cell i does
PlaceFrame(s, t, player, i) ==
    /\ ChangedCells(s.board, t.board) = {i}
    /\ t.board[i] = player
    /\ t.placementsByPlayer[player] = s.placementsByPlayer[player] + 1
    /\ t.placementsByPlayer[getOpponent(player)] = s.placementsByPlayer[getOpponent(player)]
    /\ t.activeX = s.activeX /\ t.activeY = s.activeY

\* the successor differs from s as a move of player's marker from f to to does
MoveFrame(s, t, player, f, to) ==
    /\ ChangedCells(s.board, t.board) = {f, to}
    /\ t.board[f] = EMPTY /\ t.board[to] = player
    /\ t.placementsByPlayer = s.placementsByPlayer
    /\ t.activeX = s.activeX /\ t.activeY = s.activeY

\* the successor differs from s in the window corner only
ShiftFrame(s, t, dx, dy) ==
    /\ t.board = s.board
    /\ t.placementsByPlayer = s.placementsByPlayer
    /\ t.activeX = s.activeX + dx /\ t.activeY = s.activeY + dy

\* the markers and the counter of the other player are as they were
OpponentUntouched(s, t, player) ==
    /\ \A c \in 0..(TOTAL_CELLS - 1) :
          s.board[c] = getOpponent(player) <=> t.board[c] = getOpponent(player)
    /\ t.placementsByPlayer[getOpponent(player)] = s.placementsByPlayer[getOpponent(player)]

\* C35: in every reachable state and for every action applyAction accepts
\* (places and moves over every index, shifts over every offset up to three
\* cells), the returned state differs from the state handed in exactly as
\* follows: place(i) by P changes cell i (to P) and P's counter (+1); move(f, t)
\* changes cells f and t and no counter; shift changes the window corner and
\* neither board nor counters; the opponent's counter and markers never change.
C35_ApplyFrame ==
    \A p \in Player :
        /\ \A i \in CraftedIndices :
              LET r == applyAction(state, PlaceAction(i), p)
              IN  r.error = "none" =>
                     PlaceFrame(state, r.state, p, i) /\ OpponentUntouched(state, r.state, p)
        /\ \A f \in CraftedIndices, t \in CraftedIndices :
              LET r == applyAction(state, MoveAction(f, t), p)
              IN  r.error = "none" =>
                     MoveFrame(state, r.state, p, f, t) /\ OpponentUntouched(state, r.state, p)
        /\ \A dx \in ShiftUniverse, dy \in ShiftUniverse :
              LET r == applyAction(state, ShiftAction(dx, dy), p)
              IN  r.error = "none" =>
                     ShiftFrame(state, r.state, dx, dy) /\ OpponentUntouched(state, r.state, p)

\* a state reached by placements, a move and a shift in which a player with
\* three markers, one of them outside the window, is accepted a placement, a
\* move of the outside marker into the window and a shift, the opponent
\* having markers of its own
C35_Witness ==
    /\ state.activeX # INITIAL_ACTIVE_COORD
    /\ \E p \in Player :
          /\ state.placementsByPlayer[p] = 3
          /\ MarkerCount(state, getOpponent(p)) >= 2
          /\ \E i \in InputCells : Accepted(state, PlaceAction(i), p)
          /\ \E f \in InputCells \ WindowCells(state), t \in InputCells :
                Accepted(state, MoveAction(f, t), p)
          /\ \E dx \in {-1, 1} : Accepted(state, ShiftAction(dx, 0), p)

\* C36: applyAction accepts shift(dx, dy) only when dx and dy are each in
\* {-1, 0, 1} and not both zero.
C36_UnitShiftsOnly ==
    \A p \in Player :
        \A dx \in ShiftUniverse, dy \in ShiftUniverse :
            Accepted(state, ShiftAction(dx, dy), p) =>
                /\ dx \in {-1, 0, 1}
                /\ dy \in {-1, 0, 1}
                /\ <<dx, dy>> # <<0, 0>>

\* the two shifts the claim names, and whether the code accepts them: the zero
\* shift, and the two-cell shift from the left edge
ZeroShiftAccepted == \E p \in Player : Accepted(state, ShiftAction(0, 0), p)

TwoCellShiftAccepted ==
    /\ state.activeX = 0
    /\ \E p \in Player : Accepted(state, ShiftAction(2, 0), p)

\* C37: in every state reached from the initial state by accepted actions the
\* number of cells holding a player's marker equals that player's placement
\* counter, for both players.
C37_MarkersEqualCounter ==
    \A p \in Player : MarkerCount(state, p) = state.placementsByPlayer[p]

\* both players have placed, one of them all four markers and the other two,
\* and the window has been shifted away from its starting corner
C37_Witness ==
    /\ \E p \in Player :
          /\ state.placementsByPlayer[p] = 4
          /\ MarkerCount(state, p) = 4
          /\ state.placementsByPlayer[getOpponent(p)] = 2
          /\ MarkerCount(state, getOpponent(p)) = 2
    /\ <<state.activeX, state.activeY>> # <<INITIAL_ACTIVE_COORD, INITIAL_ACTIVE_COORD>>

-----------------------------------------------------------------------------
(* Legal play: the two sides move in turn, each turn an action that        *)
(* getAvailableActions enumerates for the side to move, until the state    *)
(* has a winner or is a draw (the loop of the matches of cli.ts with       *)
(* either side's turn open to any enumerated action)                       *)

\* cells the turns of this play address, in the order they are admitted: the
\* starting window, row by row, first
PlayCellOrder == << 6, 7, 8, 11, 12, 13, 16, 17, 18, 1, 2, 3 >>
MaxPlayCells == 8
PlayCells == { PlayCellOrder[k] : k \in 1..MaxPlayCells }

\* the enumerated actions taken up in this play: those on the admitted cells,
\* and every shift
Playable(action) ==
    CASE action.type = "place" -> action.index \in PlayCells
      [] action.type = "move" -> action.from \in PlayCells /\ action.to \in PlayCells
      [] OTHER -> TRUE

InitPlay ==
    /\ state = createInitialState
    /\ sideToMove = FIRST_PLAYER
    /\ history = {}
    /\ evaluations = << >>
    /\ stats = NoStats
    /\ callArgs = NoArgs
    /\ chosen = NoChoice
    /\ winnerResult = NULL
    /\ drawResult = FALSE
    /\ lastCall = "none"
    /\ baseline = NoBaseline
    /\ searched = << >>
    /\ ttable = EmptyTable
    /\ scoreResult = 0
    /\ pluginRegistry = BuiltInRegistry
    /\ registryResult = NoRegistryResult
    /\ frames = << >>
    /\ visitedKeys = {}
    /\ keyResult = ""
    /\ options = NoOptions
    /\ driver = [name |-> "play", pc |-> "turn"]
    /\ turnHistory = << >>
    /\ published = << >>
    /\ episodeResult = NoEpisodeResult

\* one turn: the test for a winner or a draw has let the loop go on, the side
\* to move applies an enumerated action and the turn passes to the opponent
PlayTurn(action) ==
    /\ driver.name = "play" /\ driver.pc = "turn"
    /\ ~terminal(state)
    /\ Playable(action)
    /\ state' = applyAction(state, action, sideToMove).state
    /\ sideToMove' = getOpponent(sideToMove)
    /\ UNCHANGED <<history, evaluations, stats, callArgs, chosen, winnerResult, drawResult, lastCall, baseline, searched, ttable, scoreResult, registryVars, keyResult, driverVars, pathVars>>

\* the break out of the loop on a winner or a draw; winnerResult is what
\* getWinner returns for the final state
PlayEnds ==
    /\ driver.name = "play" /\ driver.pc = "turn"
    /\ terminal(state)
    /\ driver' = [driver EXCEPT !.pc = "ended"]
    /\ winnerResult' = getWinner(state)
    /\ drawResult' = isDraw(state)
    /\ UNCHANGED <<state, sideToMove, history, evaluations, stats, callArgs, chosen, lastCall, baseline, searched, ttable, scoreResult, registryVars, keyResult, options, turnHistory, published, episodeResult, pathVars>>

NextPlay ==
    \/ \E a \in Range(getAvailableActions(state, sideToMove)) : PlayTurn(a)
    \/ PlayEnds

SpecPlay == InitPlay /\ [][NextPlay]_vars

\* the players holding a complete line inside the active window
LineHolders(s) == { p \in Player : HoldsLine(s, p) }

\* C39: in every position reached by legal play with alternating sides that
\* stops at the first state with a winner, at most one player holds a complete
\* line inside the active window.
C39_UnambiguousWinner == Cardinality(LineHolders(state)) <= 1

\* the position legal play reaches in which both hold a line: getWinner
\* reports the player whose line is tested first
BothHoldLines ==
    /\ LineHolders(state) = Player
    /\ driver.pc = "ended"
    /\ winnerResult = FIRST_PLAYER

\* the number of occupied cells
Occupied(s) == Cardinality({ i \in DOMAIN s.board : s.board[i] # EMPTY })

\* C38: in every state reached from the initial state at most 8 of the 25
\* cells are occupied and isDraw is false, and so it is after any placement
\* applyAction accepts there, for either player on any cell of the board
\* (moves and shifts occupy no further cell); play never ends in a draw.
C38_NeverDraw ==
    /\ Occupied(state) <= 2 * MAX_PLACEMENTS_PER_PLAYER
    /\ ~isDraw(state)
    /\ \A p \in Player, i \in 0..(TOTAL_CELLS - 1) :
          LET r == applyAction(state, PlaceAction(i), p)
          IN  r.error = "none" =>
                 /\ Occupied(r.state) <= 2 * MAX_PLACEMENTS_PER_PLAYER
                 /\ ~isDraw(r.state)
    /\ driver.pc = "ended" => ~drawResult /\ winnerResult # NULL

\* both players have all four markers on the board, no line is complete, the
\* play goes on, and a further placement on an empty cell is refused
C38_Witness ==
    /\ Occupied(state) = 8
    /\ getWinner(state) = NULL
    /\ driver.pc = "turn"
    /\ \E i \in Range(getActiveIndices(state)) :
          /\ state.board[i] = EMPTY
          /\ applyAction(state, PlaceAction(i), sideToMove).error = "PlacementOverLimit"

-----------------------------------------------------------------------------
(* getEngineEvaluations and minimax of minimax.ts step by step: one step    *)
(* per entry of an activation of minimax (lines 30-64), per pass of its     *)
(* loop (72-74, 89-91; 82-83, 99-100 past the loop) and per return to the   *)
(* caller (75-79, 92-96; 143-147 at the root), so that the visited set and  *)
(* the stack of activations can be looked at while a search runs            *)

\* visited.delete(key) that leaves the key in the set
visitedDelete_keeps(vis, key) == vis

\* visited.delete(key)
visitedDelete(vis, key) == vis \ {key}

\* the test of the depth limit that lets the node at the limit expand
depthLimitReached_past(depth, maxDepth) == depth > maxDepth

\* depth >= maxDepth
depthLimitReached(depth, maxDepth) == depth >= maxDepth

\* an activation of minimax that has just been called: its arguments state,
\* currentPlayer and depth (aiPlayer, maxDepth, history and evaluate are those
\* of the running getEngineEvaluations), the visited set as it was handed in;
\* exit names the return taken, actions and next are the filtered actions and
\* the index of the loop, acc is bestScore/bestAction/bestPV (worstScore, ...)
\* with the nodes counted so far, and the value returned once pc is "return"
Activation(s, currentPlayer, depth, entered) ==
    [ state |-> s, currentPlayer |-> currentPlayer, depth |-> depth, entered |-> entered,
      pc |-> "entry", exit |-> "none", actions |-> << >>, next |-> 1,
      acc |-> MinimaxResult(0, NoAction, << >>, entered, 0, "none") ]

\* the running call of getEngineEvaluations: its arguments, the root actions
\* the history filter has left, the index k of the map over them and the
\* results of the searches that have returned
EngineCall(pc, aiPlayer, depthLimit, count, evaluate, actions, rootKey) ==
    [ name |-> "getEngineEvaluations", pc |-> pc, aiPlayer |-> aiPlayer,
      depthLimit |-> depthLimit, count |-> count, evaluate |-> evaluate,
      actions |-> actions, k |-> 1, rootKey |-> rootKey, results |-> << >> ]

\* getEngineEvaluations before it is called
IdleEngine == [name |-> "getEngineEvaluations", pc |-> "none"]

TopFrame == frames[Len(frames)]

\* the activation on top of the stack replaced
ReplaceTop(f) == [frames EXCEPT ![Len(frames)] = f]

\* the top activation returns at once with the evaluation for winner w
ReturnsAtOnce(exit, w) ==
    /\ frames' = ReplaceTop([TopFrame EXCEPT
                   !.pc = "return", !.exit = exit,
                   !.acc = leaf(TopFrame.state, w, driver.aiPlayer, TopFrame.depth,
                                driver.evaluate, visitedKeys)])
    /\ UNCHANGED <<visitedKeys, driver>>

\* getEngineEvaluations up to the map over the root actions (117-131)
CallGetEngineEvaluationsStepwise(depthLimit, count) ==
    /\ driver = IdleEngine
    /\ LET allActions == getAvailableActions(state, sideToMove)
           thrown == FirstError(state, allActions, sideToMove)
           actions == filterByHistory(state, allActions, sideToMove, history)
           call == EngineCall("map", sideToMove, depthLimit, count, options.evaluate, actions,
                              getStateKey(state, sideToMove))
       IN  IF thrown # "none"
           THEN driver' = [call EXCEPT !.pc = "thrown"] /\ UNCHANGED <<evaluations, stats, lastCall>>
           ELSE IF Len(actions) = 0
           THEN /\ driver' = [call EXCEPT !.pc = "returned"]
                /\ evaluations' = << >>
                /\ stats' = [nodesVisited |-> 0]
                /\ lastCall' = "getEngineEvaluations"
           ELSE driver' = call /\ UNCHANGED <<evaluations, stats, lastCall>>
    /\ callArgs' = [depthLimit |-> depthLimit, count |-> count]
    /\ UNCHANGED <<state, sideToMove, history, chosen, winnerResult, drawResult, baseline, searched, ttable, scoreResult, registryVars, keyResult, options, turnHistory, published, episodeResult, pathVars>>

\* the callback of the map for root action k: a new visited set holding the
\* root key, and minimax called on the successor at depth 1 (133-142)
MapCallsMinimax ==
    /\ driver.name = "getEngineEvaluations" /\ driver.pc = "map"
    /\ driver.k <= Len(driver.actions)
    /\ LET nextState == applyAction(state, driver.actions[driver.k], driver.aiPlayer)
       IN  IF nextState.error # "none"
           THEN driver' = [driver EXCEPT !.pc = "thrown"] /\ UNCHANGED pathVars
           ELSE /\ visitedKeys' = {driver.rootKey}
                /\ frames' = << Activation(nextState.state, getOpponent(driver.aiPlayer), 1,
                                           {driver.rootKey}) >>
                /\ driver' = [driver EXCEPT !.pc = "searching"]
    /\ UNCHANGED <<state, sideToMove, history, evaluations, stats, callArgs, chosen, winnerResult, drawResult, lastCall, baseline, searched, ttable, scoreResult, registryVars, keyResult, options, turnHistory, published, episodeResult>>

\* minimax from its entry to its first recursive call or early return (30-64)
MinimaxEnters ==
    /\ driver.name = "getEngineEvaluations" /\ driver.pc = "searching"
    /\ frames # << >> /\ TopFrame.pc = "entry"
    /\ LET f == TopFrame
           winner == getWinner(f.state)
           key == getStateKey(f.state, f.currentPlayer)
           allActions == getAvailableActions(f.state, f.currentPlayer)
           thrown == FirstError(f.state, allActions, f.currentPlayer)
           actions == filterByHistory(f.state, allActions, f.currentPlayer, history)
       IN  IF winner # NULL THEN ReturnsAtOnce("winner", winner)
           ELSE IF isDraw(f.state) THEN ReturnsAtOnce("draw", NULL)
           ELSE IF depthLimitReached(f.depth, driver.depthLimit) THEN ReturnsAtOnce("depth", NULL)
           ELSE IF visitedHas(visitedKeys, key) THEN ReturnsAtOnce("cycle", NULL)
           ELSE IF thrown # "none"
           THEN /\ driver' = [driver EXCEPT !.pc = "thrown"]
                /\ visitedKeys' = visitedKeys \cup {key}
                /\ UNCHANGED frames
           ELSE IF Len(actions) = 0
           THEN /\ visitedKeys' = visitedDelete(visitedKeys \cup {key}, key)
                /\ frames' = ReplaceTop([f EXCEPT
                               !.pc = "return", !.exit = "filtered",
                               !.acc = leaf(f.state, NULL, driver.aiPlayer, f.depth,
                                            driver.evaluate, visitedKeys') ])
                /\ UNCHANGED driver
           ELSE /\ visitedKeys' = visitedKeys \cup {key}
                /\ frames' = ReplaceTop([f EXCEPT
                               !.pc = "loop", !.actions = actions, !.next = 1,
                               !.acc = MinimaxResult(
                                          IF f.currentPlayer = driver.aiPlayer
                                          THEN 0 - Infinity ELSE Infinity,
                                          NoAction, << >>, visitedKeys', 1, "none") ])
                /\ UNCHANGED driver
    /\ UNCHANGED <<state, sideToMove, history, evaluations, stats, callArgs, chosen, winnerResult, drawResult, lastCall, baseline, searched, ttable, scoreResult, registryVars, keyResult, options, turnHistory, published, episodeResult>>

\* the head of the for-loop: the next action applied and minimax called on
\* the successor (72-74, 89-91), or past the last action visited.delete(key)
\* and the return of the best found (82-83, 99-100)
MinimaxLoops ==
    /\ driver.name = "getEngineEvaluations" /\ driver.pc = "searching"
    /\ frames # << >> /\ TopFrame.pc = "loop"
    /\ LET f == TopFrame
           key == getStateKey(f.state, f.currentPlayer)
       IN  IF f.next <= Len(f.actions)
           THEN LET nextState == applyAction(f.state, f.actions[f.next], f.currentPlayer)
                IN  IF nextState.error # "none"
                    THEN driver' = [driver EXCEPT !.pc = "thrown"] /\ UNCHANGED pathVars
                    ELSE /\ frames' = Append(frames,
                                         Activation(nextState.state, getOpponent(f.currentPlayer),
                                                    f.depth + 1, visitedKeys))
                         /\ UNCHANGED <<visitedKeys, driver>>
           ELSE /\ visitedKeys' = visitedDelete(visitedKeys, key)
                /\ frames' = ReplaceTop([f EXCEPT !.pc = "return", !.exit = "normal",
                                                  !.acc.visited = visitedKeys'])
                /\ UNCHANGED driver
    /\ UNCHANGED <<state, sideToMove, history, evaluations, stats, callArgs, chosen, winnerResult, drawResult, lastCall, baseline, searched, ttable, scoreResult, registryVars, keyResult, options, turnHistory, published, episodeResult>>

\* a return to the activation that called: the comparison with the best so
\* far and the step of the loop (75-79, 92-96)
MinimaxReturns ==
    /\ driver.name = "getEngineEvaluations" /\ driver.pc = "searching"
    /\ Len(frames) >= 2 /\ TopFrame.pc = "return"
    /\ LET caller == frames[Len(frames) - 1]
       IN  frames' = [ SubSeq(frames, 1, Len(frames) - 1) EXCEPT ![Len(frames) - 1] =
                         [caller EXCEPT
                            !.acc = keepBetter(caller.currentPlayer = driver.aiPlayer,
                                               caller.actions[caller.next], caller.acc,
                                               TopFrame.acc),
                            !.next = caller.next + 1] ]
    /\ UNCHANGED <<state, sideToMove, history, evaluations, stats, callArgs, chosen, winnerResult, drawResult, lastCall, baseline, searched, ttable, scoreResult, registryVars, keyResult, driverVars, visitedKeys>>

\* the return of the search of root action k to the callback of the map
RootSearchReturns ==
    /\ driver.name = "getEngineEvaluations" /\ driver.pc = "searching"
    /\ Len(frames) = 1 /\ TopFrame.pc = "return"
    /\ driver' = [driver EXCEPT !.pc = "map", !.k = @ + 1,
                                !.results = Append(@, TopFrame.acc)]
    /\ frames' = << >>
    /\ UNCHANGED <<state, sideToMove, history, evaluations, stats, callArgs, chosen, winnerResult, drawResult, lastCall, baseline, searched, ttable, scoreResult, registryVars, keyResult, options, turnHistory, published, episodeResult, visitedKeys>>

\* past the map: the sort, the slice and the return (150-154)
MapEnds ==
    /\ driver.name = "getEngineEvaluations" /\ driver.pc = "map"
    /\ driver.k > Len(driver.actions)
    /\ \E r \in {collectEvaluations(driver.actions, driver.results, driver.count)} :
           /\ evaluations' = r.evaluations
           /\ stats' = r.stats
    /\ lastCall' = "getEngineEvaluations"
    /\ driver' = [driver EXCEPT !.pc = "returned"]
    /\ UNCHANGED <<state, sideToMove, history, callArgs, chosen, winnerResult, drawResult, baseline, searched, ttable, scoreResult, registryVars, keyResult, options, turnHistory, published, episodeResult, pathVars>>

\* a full board without three equal markers in any line of any window, as a
\* caller can build it: every window of it is a draw
drawnState ==
    [ createInitialState EXCEPT
        !.board = [i \in 0..(TOTAL_CELLS - 1) |->
                      IF ((i % BOARD_SIZE) + 2 * ((i \div BOARD_SIZE) % 2)) % 4 < 2
                      THEN "X" ELSE "O"],
        !.placementsByPlayer = [p \in Player |-> FIRST_PLAYER_PIECES] ]

\* the position the first enumerated action of player leads to
firstSuccessor(s, player) == applyAction(s, getAvailableActions(s, player)[1], player).state

\* the keys of all positions one action of player away from s
successorKeys(s, player) ==
    { getNextStateKey(s, a, player) : a \in Range(getAvailableActions(s, player)) }

\* the history sets a search from s is given: none, the position two first
\* actions ahead, and every position the opponent can reach from the first
\* successor
HistoryInputs(s, player) ==
    { {},
      { getStateKey(firstSuccessor(firstSuccessor(s, player), getOpponent(player)), player) },
      successorKeys(firstSuccessor(s, player), getOpponent(player)) }

MaxPathDepth == 3

searchOptions(evaluate) == [name |-> "getEngineEvaluations", evaluate |-> evaluate]

\* the searches followed step by step: from the opening with each history set
\* and plugin, and from the full window, the position where O must block and
\* the drawn board with the default plugin and no history
InitPath ==
    /\ \/ /\ state = createInitialState /\ sideToMove = FIRST_PLAYER
          /\ history \in HistoryInputs(createInitialState, FIRST_PLAYER)
          /\ \E e \in BuiltInPlugins : options = searchOptions(e)
       \/ /\ \E f \in { <<fullState, "X">>, <<mustBlock, "O">>, <<drawnState, "X">> } :
                state = f[1] /\ sideToMove = f[2]
          /\ history = {}
          /\ options = searchOptions("default")
    /\ evaluations = << >>
    /\ stats = NoStats
    /\ callArgs = NoArgs
    /\ chosen = NoChoice
    /\ winnerResult = NULL
    /\ drawResult = FALSE
    /\ lastCall = "none"
    /\ baseline = NoBaseline
    /\ searched = << >>
    /\ ttable = EmptyTable
    /\ scoreResult = 0
    /\ pluginRegistry = BuiltInRegistry
    /\ registryResult = NoRegistryResult
    /\ keyResult = ""
    /\ driver = IdleEngine
    /\ turnHistory = << >>
    /\ published = << >>
    /\ episodeResult = NoEpisodeResult
    /\ frames = << >>
    /\ visitedKeys = {}

NextPath ==
    \/ \E d \in 0..MaxPathDepth : CallGetEngineEvaluationsStepwise(d, DefaultCount)
    \/ MapCallsMinimax
    \/ MinimaxEnters
    \/ MinimaxLoops
    \/ MinimaxReturns
    \/ RootSearchReturns
    \/ MapEnds

SpecPath == InitPath /\ [][NextPath]_vars

\* the returned evaluations and node count are those of getEngineEvaluations
\* computed in one piece
StepwiseAgrees ==
    driver.pc # "returned" \/
        LET r == getEngineEvaluations(state, sideToMove, history, driver.depthLimit,
                                      driver.count, driver.evaluate)
        IN  r.error = "none" /\ r.evaluations = evaluations /\ r.stats = stats

\* the keys of the activations that have added theirs to the visited set and
\* not yet removed it: those standing in their loop
KeysOnPath ==
    { getStateKey(frames[k].state, frames[k].currentPlayer) :
        k \in { j \in 1..Len(frames) : frames[j].pc = "loop" } }

\* the visited set while a search runs
C31_StateOfPath ==
    driver.pc = "searching" =>
        /\ visitedKeys = {driver.rootKey} \cup KeysOnPath
        /\ Cardinality(visitedKeys)
              = 1 + Cardinality({ j \in 1..Len(frames) : frames[j].pc = "loop" })
        /\ \A k \in 1..Len(frames) :
              /\ frames[k].pc \in {"entry", "return"} =>
                    k = Len(frames) /\ visitedKeys = frames[k].entered
              /\ frames[k].pc = "return" =>
                    frames[k].exit \in {"winner", "draw", "depth", "cycle", "filtered", "normal"}

\* C31: while a search runs the visited set holds exactly the root key and
\* the keys of the positions on the current recursion path, one per expanded
\* activation; whenever an activation of minimax returns, by whichever exit
\* (winner, draw, depth limit, key already visited, every action filtered
\* out, or past its loop), the visited set is the set it was handed on entry;
\* and no step of a search changes the history set.
C31_PathSetBalance ==
    /\ []C31_StateOfPath
    /\ [][history' = history]_vars

\* a search of the full window three plies deep has shifted the window and
\* shifted it back: the second activation finds the root key in the visited
\* set and returns with the set as it was handed in, the key of the first
\* activation still on the path
C31_Witness ==
    /\ driver.pc = "searching"
    /\ Len(frames) = 2
    /\ frames[1].pc = "loop"
    /\ frames[2].pc = "return" /\ frames[2].exit = "cycle"
    /\ getStateKey(frames[2].state, frames[2].currentPlayer) = driver.rootKey
    /\ visitedKeys = {driver.rootKey, getStateKey(frames[1].state, frames[1].currentPlayer)}
    /\ visitedKeys = frames[2].entered

\* returns by the other exits: every action filtered out, a draw, a winner
\* below the root, the depth limit, and past the loop three activations deep
C31_WitnessFiltered ==
    /\ frames # << >> /\ TopFrame.pc = "return" /\ TopFrame.exit = "filtered"
    /\ visitedKeys = TopFrame.entered

C31_WitnessDraw == frames # << >> /\ TopFrame.pc = "return" /\ TopFrame.exit = "draw"

C31_WitnessWinner ==
    /\ Len(frames) = 2 /\ TopFrame.pc = "return" /\ TopFrame.exit = "winner"

C31_WitnessNormal ==
    /\ Len(frames) = 2 /\ TopFrame.pc = "return" /\ TopFrame.exit = "normal"
    /\ driver.depthLimit = 3
    /\ Len(TopFrame.acc.pv) = 1

\* the keys of the positions a line of actions leads through, from s with
\* player to move; a step applyAction rejects ends the walk
RECURSIVE LineKeys(_, _, _)
LineKeys(s, pv, player) ==
    IF pv = << >> THEN {}
    ELSE LET r == applyAction(s, Head(pv), player)
         IN  IF r.error # "none" THEN {}
             ELSE {getStateKey(r.state, getOpponent(player))}
                    \cup LineKeys(r.state, Tail(pv), getOpponent(player))

\* every enumerated action of the node leads to a position recorded in history
EveryActionRepeats(s, player) ==
    \A a \in Range(getAvailableActions(s, player)) : getNextStateKey(s, a, player) \in history

C32_WitnessLine ==
    /\ driver.pc = "returned" /\ driver.depthLimit = 2
    /\ Cardinality(history) = 1
    /\ \E e \in Range(evaluations) :
          /\ e.action = getAvailableActions(state, sideToMove)[1]
          /\ Len(e.pv) = 2
          /\ e.pv[2] = getAvailableActions(firstSuccessor(state, sideToMove),
                                           getOpponent(sideToMove))[2]

\* the depth limits of the calls that are followed to their end and of the
\* calls followed next to the drivers
MaxShallowDepth == 2

NextPathShallow ==
    \/ \E d \in 0..MaxShallowDepth : CallGetEngineEvaluationsStepwise(d, DefaultCount)
    \/ MapCallsMinimax
    \/ MinimaxEnters
    \/ MinimaxLoops
    \/ MinimaxReturns
    \/ RootSearchReturns
    \/ MapEnds

\* a call that has started runs on: the program is single-threaded and each
\* step of the search is taken when it is due
SpecPathFair == InitPath /\ [][NextPathShallow]_vars /\ WF_vars(NextPathShallow)

\* no applyAction has thrown, and with a depth limit of at least 1 the stack
\* of activations is never deeper than the limit: the k-th activation runs at
\* depth k <= maxDepth
C34_StateOfSearch ==
    /\ driver.pc # "thrown"
    /\ (driver.pc = "searching" /\ driver.depthLimit >= 1) =>
          /\ Len(frames) <= driver.depthLimit
          /\ \A k \in 1..Len(frames) : frames[k].depth = k

\* C34: a call of getEngineEvaluations with a depth limit of at least 1 --
\* from each position, history set and plugin the searches start with --
\* returns: no applyAction rejects an action inside the search, the
\* recursion is never deeper than maxDepth, and the call ends with its
\* evaluations.
C34_SearchTerminates ==
    /\ []C34_StateOfSearch
    /\ (driver.pc \in {"map", "searching"} /\ driver.depthLimit >= 1) ~> (driver.pc = "returned")

\* the search of the full window to the deepest limit has returned with its
\* evaluations
C34_Witness ==
    /\ driver.pc = "returned"
    /\ state = fullState
    /\ driver.depthLimit = MaxShallowDepth
    /\ Len(evaluations) = DefaultCount
    /\ stats.nodesVisited > 100

\* the recursion at its deepest: as many activations as the limit, the last
\* one returning at the limit
C34_WitnessDeepest ==
    /\ driver.pc = "searching"
    /\ driver.depthLimit = MaxShallowDepth
    /\ Len(frames) = MaxShallowDepth
    /\ TopFrame.pc = "return" /\ TopFrame.exit = "depth"

\* the actions of an expanded node stand in descending priority
InPriorityOrder(s, actions) ==
    \A i \in 1..(Len(actions) - 1) :
        actionPriority(s, actions[i]) >= actionPriority(s, actions[i + 1])

\* a return to the calling activation replaces its best action exactly when
\* the score returned is strictly better for the side to move there
TieBreakStep ==
    (Len(frames) >= 2 /\ TopFrame.pc = "return" /\ Len(frames') = Len(frames) - 1) =>
        LET caller == frames[Len(frames) - 1]
            after == frames'[Len(frames) - 1]
            result == TopFrame.acc
            better == IF caller.currentPlayer = driver.aiPlayer
                      THEN result.score > caller.acc.score
                      ELSE result.score < caller.acc.score
        IN  IF better
            THEN after.acc.action = caller.actions[caller.next] /\ after.acc.score = result.score
            ELSE after.acc.action = caller.acc.action /\ after.acc.score = caller.acc.score

\* C33: at every node the search expands, the children are examined in
\* descending priority (place on the window centre, on a window corner,
\* other place, move, shift), and the best action changes only on a strictly
\* better score, so that of equal best children the first examined is kept.
C33_OrderAndTieBreak ==
    /\ [](driver.pc = "searching" /\ frames # << >> /\ TopFrame.pc = "loop"
             => InPriorityOrder(TopFrame.state, TopFrame.actions))
    /\ [][TieBreakStep]_vars

\* the tie-break alone, in the order the code examines the children
TieBreakAlone == [][TieBreakStep]_vars

\* the first node a search from the opening expands examines a corner, then
\* an edge, then the centre
OutOfPriorityOrder ==
    /\ driver.pc = "searching" /\ Len(frames) = 1 /\ TopFrame.pc = "loop"
    /\ ~InPriorityOrder(TopFrame.state, TopFrame.actions)

\* the drivers of cli.ts and learning.ts next to the searches followed step
\* by step: a run is a match, an episode, or a call of getEngineEvaluations
InitDrivers == InitMatch \/ InitPath

NextDrivers == NextMatch \/ NextPathShallow

SpecDrivers == InitDrivers /\ [][NextDrivers]_vars

\* the position has neither a winner nor is it a draw
InPlay(s) == getWinner(s) = NULL /\ ~isDraw(s)

\* a driver commits a turn: the list of turns played grows
CommitsTurn == Len(turnHistory') > Len(turnHistory)

\* minimax calls itself on a successor: the stack of activations grows above
\* an activation
AppliesAtNode == Len(frames) >= 1 /\ Len(frames') > Len(frames)

\* the activations of minimax that have enumerated their actions
Enumerated(f) == f.pc = "loop" \/ (f.pc = "return" /\ f.exit \in {"filtered", "normal"})

\* C40: no turn is committed by a match of cli.ts or by runSelfPlayEpisode
\* from a position that has a winner or is a draw, and no activation of
\* minimax enumerates actions or applies one at a position that has a winner
\* or is a draw.
C40_NoPlayAfterEnd ==
    /\ [][CommitsTurn => InPlay(state)]_vars
    /\ [](\A k \in 1..Len(frames) : Enumerated(frames[k]) => InPlay(frames[k].state))
    /\ [][AppliesAtNode => InPlay(TopFrame.state)]_vars

\* a match of cli.ts has ended on a winner after turns were committed
C40_Witness ==
    /\ driver.name \in {"playHumanMatch", "playSelfMatch"} /\ driver.pc = "ended"
    /\ getWinner(state) # NULL
    /\ Len(turnHistory) >= 5

\* an episode has returned on a winner
C40_WitnessEpisode ==
    /\ driver.name = "runSelfPlayEpisode" /\ driver.pc = "returned"
    /\ getWinner(state) # NULL
    /\ ~episodeResult.terminatedByMaxTurns

\* an activation of minimax below another one returns a won position with
\* no action enumerated
C40_WitnessSearch ==
    /\ driver.name = "getEngineEvaluations" /\ driver.pc = "searching"
    /\ Len(frames) = 2
    /\ TopFrame.pc = "return" /\ TopFrame.exit = "winner"
    /\ getWinner(TopFrame.state) # NULL
    /\ TopFrame.actions = << >>

====
